---------------------------- MODULE Spec2Model ----------------------------
(***************************************************************************)
(* Transaction-execution core of the cryptocurrency-advanced service:      *)
(* wallets, wallet histories, multisignature transfers (escrows) and the   *)
(* six transactions of WalletTransactions, executed one at a time in the   *)
(* order in which the blockchain delivers them.                            *)
(*                                                                         *)
(* A transaction hash is modelled as the position of the transaction in    *)
(* the sequence of delivered transactions: the hash covers the whole       *)
(* signed message, so every delivered message has a hash of its own.       *)
(* The Merkle root kept in Wallet::history_hash is a digest of the         *)
(* wallet's history list; the list itself (wallet_history) stands for it.  *)
(***************************************************************************)
EXTENDS Integers, Sequences, FiniteSets, TLC

\* ------------------------------------------------------------------ bounds

\* Transactions delivered in one run (successful or not).
MaxOps == 5

\* Transactions of one run that end with an error.
MaxFailed == 1

\* Transactions delivered in one short run, and those of them that end with an
\* error: short runs hold a failed transaction and a failed reference to it.
ShortOps == 4

ShortFailed == 2

\* Calls of schema mutators in one run of the schema.
MaxCalls == 4

\* Transactions other than approvals and rejections in one run in which every
\* approval arrives.
LiveOps == 3

\* Approvers of the lists whose orders of approval are all tried.
MaxPermuted == 4

\* Calls of the methods of the older service's Wallet in one run.
MaxLegacyCalls == 2

\* Transactions of one run with replays, and the replays refused in it.
ReplayOps == 4

MaxRefused == 1

\* Bits of a balance in the runs of the schema: the code's u64 scaled down, so
\* that a few credits reach the largest balance.
BalanceBits == 8

\* ------------------------------------------------------- program constants

INITIAL_BALANCE == 100

MAX_APPROVERS == 5

\* ------------------------------------------------------------------ inputs

\* Public keys that sign CreateWallet, Issue, Transfer and TransferMultisig, and
\* that transfers are addressed to.
Owners == {"alice", "bob"}

\* Public keys that sign ApproveTransferMultisig and RejectTransferMultisig.
Approvers == {"carol", "dave"}

\* Wallet names.
Names == {"wallet"}

\* Amounts of Issue, Transfer and TransferMultisig.
Amounts == {100}

\* An approvers list of MAX_APPROVERS + 1 different keys.
TooManyApprovers == <<"carol", "dave", "erin", "frank", "grace", "heidi">>

\* Approvers lists of TransferMultisig.
ApproverLists == {<< >>, <<"carol">>, <<"carol", "dave">>, TooManyApprovers}

\* ------------------------------------------------------------------- state

VARIABLES
    wallets,             \* cryptocurrency.wallets: PublicKey -> Wallet
    wallet_history,      \* cryptocurrency.wallet_history: PublicKey -> list of Hash
    multisig_transfers,  \* Hash of a TransferMultisig -> MultisignatureTransfer
    transactions,        \* blockchain transactions(): Hash -> transaction
    transaction_results, \* blockchain transaction_results(): Hash -> result
    replayed              \* hashes of the messages refused as duplicates

vars ==
    <<wallets, wallet_history, multisig_transfers, transactions, transaction_results,
      replayed>>

\* The part of the storage the service writes: the view a transaction executes on.
Fork ==
    [wallets |-> wallets,
     wallet_history |-> wallet_history,
     multisig_transfers |-> multisig_transfers]

\* ----------------------------------------------------------------- helpers

\* The elements of a list (HashSet::from_iter).
ToSet(list) == {list[i] : i \in DOMAIN list}

\* ProofMapIndex::put
Put(map, key, value) ==
    [k \in (DOMAIN map) \cup {key} |-> IF k = key THEN value ELSE map[k]]

\* Result of a successful execution.
Ok == "Ok"

\* Mutant of Error: TransferIsRejected shares the code of
\* ApproverIsNotOnApproversList.
ErrorCode_shared ==
    [WalletAlreadyExists |-> 0,
     SenderNotFound |-> 1,
     ReceiverNotFound |-> 2,
     InsufficientCurrencyAmount |-> 3,
     SenderSameAsReceiver |-> 4,
     EmptyApproversList |-> 5,
     ApproversListIsTooLarge |-> 6,
     TransactionDoesNotExist |-> 7,
     ReferredTransactionFailed |-> 8,
     ReferredTransactionIsNotTransferMultisig |-> 9,
     ApproverIsNotOnApproversList |-> 10,
     TransferIsRejected |-> 10]

\* #[repr(u8)] enum Error: the code of each error.
ErrorCode ==
    [WalletAlreadyExists |-> 0,
     SenderNotFound |-> 1,
     ReceiverNotFound |-> 2,
     InsufficientCurrencyAmount |-> 3,
     SenderSameAsReceiver |-> 4,
     EmptyApproversList |-> 5,
     ApproversListIsTooLarge |-> 6,
     TransactionDoesNotExist |-> 7,
     ReferredTransactionFailed |-> 8,
     ReferredTransactionIsNotTransferMultisig |-> 9,
     ApproverIsNotOnApproversList |-> 10,
     TransferIsRejected |-> 11]

\* Err(e)?: execution returns with error e, leaving the fork as it is.
Err(fork, e) == [result |-> e, fork |-> fork]

\* Ok(()): execution returns successfully with the fork it has written.
Success(fork) == [result |-> Ok, fork |-> fork]

\* --------------------------------------------------------------- wallet.rs

Wallet_new(pub_key, name, balance, history_len) ==
    [pub_key |-> pub_key, name |-> name, balance |-> balance,
     history_len |-> history_len, pending_multisig_transfers |-> << >>]

increase_balance(wallet, amount) == [wallet EXCEPT !.balance = @ + amount]

decrease_balance(wallet, amount) == [wallet EXCEPT !.balance = @ - amount]

\* The largest balance of the runs of the schema (u64::MAX, scaled).
U64_MAX == 2 ^ BalanceBits - 1

\* balance + amount in u64: the sum, or on overflow what the build makes of
\* it, a panic (overflow checks on) or the sum modulo 2^BalanceBits (off).
add_u64(balance, amount) ==
    IF balance + amount <= U64_MAX
    THEN {[panic |-> FALSE, value |-> balance + amount]}
    ELSE {[panic |-> TRUE, value |-> balance],
          [panic |-> FALSE, value |-> (balance + amount) % (U64_MAX + 1)]}

PendingTransferMultisig_new(tx_hash) == [tx_hash |-> tx_hash, approved_by |-> << >>]

PendingTransferMultisig_approve(transfer, approver) ==
    [transfer EXCEPT !.approved_by = Append(@, approver)]

set_balance(wallet, balance) ==
    [wallet EXCEPT !.balance = balance, !.history_len = @ + 1]

put_multisig_transfer(wallet, transfer_multisig) ==
    [wallet EXCEPT
        !.pending_multisig_transfers = Append(@, transfer_multisig),
        !.history_len = @ + 1]

remove_multisig_transfer(wallet, transfer_multisig_hash) ==
    [wallet EXCEPT
        !.pending_multisig_transfers =
            SelectSeq(@, LAMBDA t : t.tx_hash # transfer_multisig_hash),
        !.history_len = @ + 1]

complete_multisig_transfer(wallet, transfer_multisig, balance) ==
    set_balance(remove_multisig_transfer(wallet, transfer_multisig.tx_hash), balance)

update_multisig_transfer(wallet, transfer_multisig) ==
    put_multisig_transfer(
        remove_multisig_transfer(wallet, transfer_multisig.tx_hash), transfer_multisig)

\* ------------------------------------------------------ multisig_transfer.rs

InProcess == "InProcess"

Rejected == "Rejected"

Done == "Done"

MultisignatureTransfer_new == [approved_by |-> << >>, state |-> InProcess]

\* Mutant of is_complete: compares the number of approvals with the number of
\* approvers instead of comparing the two sets.
is_complete_by_count(transfer, approvers) ==
    Len(transfer.approved_by) = Cardinality(ToSet(approvers))

\* Mutant of is_complete: compares the two lists, not the two sets.
is_complete_in_order(transfer, approvers) == transfer.approved_by = approvers

is_complete(transfer, approvers) == ToSet(transfer.approved_by) = ToSet(approvers)

is_done(transfer) == transfer.state = Done

\* Mutant of is_rejected: looks for Done instead of Rejected.
is_rejected_as_done(transfer) == transfer.state = Done

is_rejected(transfer) == transfer.state = Rejected

\* Mutant of approve: the approver is not looked up in the approvers list.
approve_anyone(transfer, approver, approvers) ==
    LET approved == [transfer EXCEPT !.approved_by = Append(@, approver)]
        state == IF is_complete(approved, approvers) THEN Done ELSE InProcess
    IN  [ok |-> TRUE, value |-> [approved EXCEPT !.state = state]]

\* Mutant of approve: the approver replaces the approvals recorded before
\* instead of joining them.
approve_forgets(transfer, approver, approvers) ==
    IF approver \in ToSet(approvers)
    THEN LET approved == [transfer EXCEPT !.approved_by = <<approver>>]
             state == IF is_complete(approved, approvers) THEN Done ELSE InProcess
         IN  [ok |-> TRUE, value |-> [approved EXCEPT !.state = state]]
    ELSE [ok |-> FALSE, value |-> transfer]

\* Mutant of approve: the first approval takes the transfer to Done.
approve_first_suffices(transfer, approver, approvers) ==
    IF approver \in ToSet(approvers)
    THEN LET approved == [transfer EXCEPT !.approved_by = Append(@, approver)]
         IN  [ok |-> TRUE, value |-> [approved EXCEPT !.state = Done]]
    ELSE [ok |-> FALSE, value |-> transfer]

\* Mutant of approve: the approver is recorded and the state is left as it is.
approve_keeps_state(transfer, approver, approvers) ==
    IF approver \in ToSet(approvers)
    THEN [ok |-> TRUE, value |-> [transfer EXCEPT !.approved_by = Append(@, approver)]]
    ELSE [ok |-> FALSE, value |-> transfer]

\* Result<Self, Self>: ok tells Ok(..) from Err(..).
approve(transfer, approver, approvers) ==
    IF approver \in ToSet(approvers)
    THEN LET approved == [transfer EXCEPT !.approved_by = Append(@, approver)]
             state == IF is_complete(approved, approvers) THEN Done ELSE InProcess
         IN  [ok |-> TRUE, value |-> [approved EXCEPT !.state = state]]
    ELSE [ok |-> FALSE, value |-> transfer]

\* Mutant of reject: a transfer somebody has approved cannot be rejected.
reject_unapproved_only(transfer, rejecter, approvers) ==
    IF rejecter \in ToSet(approvers) /\ transfer.approved_by = << >>
    THEN [ok |-> TRUE, value |-> [transfer EXCEPT !.state = Rejected]]
    ELSE [ok |-> FALSE, value |-> transfer]

\* Mutant of reject: the rejecter is not looked up in the approvers list.
reject_anyone(transfer, rejecter, approvers) ==
    [ok |-> TRUE, value |-> [transfer EXCEPT !.state = Rejected]]

reject(transfer, rejecter, approvers) ==
    IF rejecter \in ToSet(approvers)
    THEN [ok |-> TRUE, value |-> [transfer EXCEPT !.state = Rejected]]
    ELSE [ok |-> FALSE, value |-> transfer]

\* --------------------------------------------------------------- schema.rs

\* Appends the transaction to the wallet's history and stores the wallet.
update_wallet(fork, wallet, hash) ==
    [fork EXCEPT
        !.wallet_history[wallet.pub_key] = Append(@, hash),
        !.wallets = Put(@, wallet.pub_key, [wallet EXCEPT !.history_len = @ + 1])]

create_wallet(fork, key, name, hash) ==
    LET history == Append(fork.wallet_history[key], hash)
    IN  [fork EXCEPT
            !.wallet_history[key] = history,
            !.wallets = Put(@, key, Wallet_new(key, name, INITIAL_BALANCE, Len(history)))]

\* The mutators of schema.rs: each pushes one hash to the wallet's history and
\* stores the wallet its Wallet method returns.
store_wallet(fork, wallet, pushed) ==
    [fork EXCEPT
        !.wallet_history[wallet.pub_key] = Append(@, pushed),
        !.wallets = Put(@, wallet.pub_key, wallet)]

\* The outcomes of increase_wallet_balance: one, or two when the sum overflows.
increase_wallet_balance(fork, wallet, amount, transaction) ==
    {IF sum.panic
     THEN Err(fork, "Panic")
     ELSE Success(store_wallet(fork, set_balance(wallet, sum.value), transaction)) :
        sum \in add_u64(wallet.balance, amount)}

decrease_wallet_balance(fork, wallet, amount, transaction) ==
    Success(store_wallet(fork, set_balance(wallet, wallet.balance - amount), transaction))

put_transfer_multisig(fork, wallet, transfer_multisig) ==
    Success(store_wallet(fork, put_multisig_transfer(wallet, transfer_multisig),
                         transfer_multisig.tx_hash))

\* The outcomes of complete_transfer_multisig: one, or two when the sum overflows.
complete_transfer_multisig(fork, wallet, amount, transfer_multisig, transaction) ==
    {IF sum.panic
     THEN Err(fork, "Panic")
     ELSE Success(store_wallet(fork,
                      complete_multisig_transfer(wallet, transfer_multisig, sum.value),
                      transaction)) :
        sum \in add_u64(wallet.balance, amount)}

update_transfer_multisig_of_wallet(fork, wallet, transfer_multisig, transaction) ==
    Success(store_wallet(fork, update_multisig_transfer(wallet, transfer_multisig),
                         transaction))

cancel_transfer_multisig(fork, wallet, transfer_multisig, transaction) ==
    Success(store_wallet(fork,
                remove_multisig_transfer(wallet, transfer_multisig.tx_hash), transaction))

create_transfer_multisig(fork, hash) ==
    [fork EXCEPT !.multisig_transfers = Put(@, hash, MultisignatureTransfer_new)]

update_transfer_multisig(fork, hash, transfer) ==
    [fork EXCEPT !.multisig_transfers = Put(@, hash, transfer)]

\* ---------------------------------------------------------- transactions.rs

\* Mutant of Transfer::execute: the sender's wallet is looked up before sender
\* and receiver are compared.
Transfer_execute_sender_first(fork, from, hash, to, amount) ==
    IF from \notin DOMAIN fork.wallets THEN Err(fork, "SenderNotFound")
    ELSE IF from = to THEN Err(fork, "SenderSameAsReceiver")
    ELSE IF to \notin DOMAIN fork.wallets THEN Err(fork, "ReceiverNotFound")
    ELSE
    LET sender == fork.wallets[from]
        receiver == fork.wallets[to]
    IN  IF sender.balance < amount THEN Err(fork, "InsufficientCurrencyAmount")
        ELSE
        LET f1 == update_wallet(fork, decrease_balance(sender, amount), hash)
            f2 == update_wallet(f1, increase_balance(receiver, amount), hash)
        IN  Success(f2)

\* Mutant of Transfer::execute: the sender is stored without being debited.
Transfer_execute_no_debit(fork, from, hash, to, amount) ==
    IF from = to THEN Err(fork, "SenderSameAsReceiver")
    ELSE IF from \notin DOMAIN fork.wallets THEN Err(fork, "SenderNotFound")
    ELSE IF to \notin DOMAIN fork.wallets THEN Err(fork, "ReceiverNotFound")
    ELSE
    LET sender == fork.wallets[from]
        receiver == fork.wallets[to]
    IN  IF sender.balance < amount THEN Err(fork, "InsufficientCurrencyAmount")
        ELSE
        LET f1 == update_wallet(fork, sender, hash)
            f2 == update_wallet(f1, increase_balance(receiver, amount), hash)
        IN  Success(f2)

\* Mutant of Transfer::execute: the balance of the sender is not compared with
\* the amount.
Transfer_execute_unchecked(fork, from, hash, to, amount) ==
    IF from = to THEN Err(fork, "SenderSameAsReceiver")
    ELSE IF from \notin DOMAIN fork.wallets THEN Err(fork, "SenderNotFound")
    ELSE IF to \notin DOMAIN fork.wallets THEN Err(fork, "ReceiverNotFound")
    ELSE
    LET sender == fork.wallets[from]
        receiver == fork.wallets[to]
        f1 == update_wallet(fork, decrease_balance(sender, amount), hash)
        f2 == update_wallet(f1, increase_balance(receiver, amount), hash)
    IN  Success(f2)

Transfer_execute(fork, from, hash, to, amount) ==
    IF from = to THEN Err(fork, "SenderSameAsReceiver")
    ELSE IF from \notin DOMAIN fork.wallets THEN Err(fork, "SenderNotFound")
    ELSE IF to \notin DOMAIN fork.wallets THEN Err(fork, "ReceiverNotFound")
    ELSE
    LET sender == fork.wallets[from]
        receiver == fork.wallets[to]
    IN  IF sender.balance < amount THEN Err(fork, "InsufficientCurrencyAmount")
        ELSE
        LET f1 == update_wallet(fork, decrease_balance(sender, amount), hash)
            f2 == update_wallet(f1, increase_balance(receiver, amount), hash)
        IN  Success(f2)

\* Mutant of Issue::execute: an author without a wallet gets one that holds
\* the issued amount.
Issue_execute_creates(fork, pub_key, hash, amount) ==
    IF pub_key \in DOMAIN fork.wallets
    THEN Success(update_wallet(fork, increase_balance(fork.wallets[pub_key], amount), hash))
    ELSE Success(update_wallet(fork, Wallet_new(pub_key, "", amount, 0), hash))

\* Mutant of Issue::execute: the author's wallet is made anew with the sum as
\* its balance, instead of being updated.
Issue_execute_renews(fork, pub_key, hash, amount) ==
    IF pub_key \in DOMAIN fork.wallets
    THEN Success(update_wallet(fork,
             Wallet_new(pub_key, "", fork.wallets[pub_key].balance + amount, 0),
             hash))
    ELSE Err(fork, "ReceiverNotFound")

Issue_execute(fork, pub_key, hash, amount) ==
    IF pub_key \in DOMAIN fork.wallets
    THEN Success(update_wallet(fork, increase_balance(fork.wallets[pub_key], amount), hash))
    ELSE Err(fork, "ReceiverNotFound")

\* Mutant of CreateWallet::execute: the wallet is created whether or not the
\* author has one.
CreateWallet_execute_overwrites(fork, pub_key, hash, name) ==
    Success(create_wallet(fork, pub_key, name, hash))

CreateWallet_execute(fork, pub_key, hash, name) ==
    IF pub_key \notin DOMAIN fork.wallets
    THEN Success(create_wallet(fork, pub_key, name, hash))
    ELSE Err(fork, "WalletAlreadyExists")

\* Mutant of TransferMultisig::execute: the receiver is credited when the
\* transfer is created, as Transfer does.
TransferMultisig_execute_credits(fork, from, hash, to, approvers_list, amount) ==
    IF from = to THEN Err(fork, "SenderSameAsReceiver")
    ELSE IF from \notin DOMAIN fork.wallets THEN Err(fork, "SenderNotFound")
    ELSE IF to \notin DOMAIN fork.wallets THEN Err(fork, "ReceiverNotFound")
    ELSE
    LET sender == fork.wallets[from]
        receiver == fork.wallets[to]
        approvers == ToSet(approvers_list)
    IN  IF sender.balance < amount THEN Err(fork, "InsufficientCurrencyAmount")
        ELSE IF approvers = {} THEN Err(fork, "EmptyApproversList")
        ELSE IF Cardinality(approvers) > MAX_APPROVERS
             THEN Err(fork, "ApproversListIsTooLarge")
        ELSE
        LET f1 == update_wallet(fork, decrease_balance(sender, amount), hash)
            f2 == update_wallet(f1, increase_balance(receiver, amount), hash)
        IN  Success(create_transfer_multisig(f2, hash))

\* Mutant of TransferMultisig::execute: a list of MAX_APPROVERS approvers is
\* too large already.
TransferMultisig_execute_fewer(fork, from, hash, to, approvers_list, amount) ==
    IF from = to THEN Err(fork, "SenderSameAsReceiver")
    ELSE IF from \notin DOMAIN fork.wallets THEN Err(fork, "SenderNotFound")
    ELSE IF to \notin DOMAIN fork.wallets THEN Err(fork, "ReceiverNotFound")
    ELSE
    LET sender == fork.wallets[from]
        approvers == ToSet(approvers_list)
    IN  IF sender.balance < amount THEN Err(fork, "InsufficientCurrencyAmount")
        ELSE IF approvers = {} THEN Err(fork, "EmptyApproversList")
        ELSE IF Cardinality(approvers) >= MAX_APPROVERS
             THEN Err(fork, "ApproversListIsTooLarge")
        ELSE
        LET f1 == update_wallet(fork, decrease_balance(sender, amount), hash)
        IN  Success(create_transfer_multisig(f1, hash))

\* Mutant of TransferMultisig::execute: a transfer of the whole balance is
\* refused too.
TransferMultisig_execute_strict(fork, from, hash, to, approvers_list, amount) ==
    IF from = to THEN Err(fork, "SenderSameAsReceiver")
    ELSE IF from \notin DOMAIN fork.wallets THEN Err(fork, "SenderNotFound")
    ELSE IF to \notin DOMAIN fork.wallets THEN Err(fork, "ReceiverNotFound")
    ELSE
    LET sender == fork.wallets[from]
        approvers == ToSet(approvers_list)
    IN  IF sender.balance <= amount THEN Err(fork, "InsufficientCurrencyAmount")
        ELSE IF approvers = {} THEN Err(fork, "EmptyApproversList")
        ELSE IF Cardinality(approvers) > MAX_APPROVERS
             THEN Err(fork, "ApproversListIsTooLarge")
        ELSE
        LET f1 == update_wallet(fork, decrease_balance(sender, amount), hash)
        IN  Success(create_transfer_multisig(f1, hash))

\* Mutant of TransferMultisig::execute: the transfer is recorded and the amount
\* stays in the balance of the sender.
TransferMultisig_execute_no_debit(fork, from, hash, to, approvers_list, amount) ==
    IF from = to THEN Err(fork, "SenderSameAsReceiver")
    ELSE IF from \notin DOMAIN fork.wallets THEN Err(fork, "SenderNotFound")
    ELSE IF to \notin DOMAIN fork.wallets THEN Err(fork, "ReceiverNotFound")
    ELSE
    LET sender == fork.wallets[from]
        approvers == ToSet(approvers_list)
    IN  IF sender.balance < amount THEN Err(fork, "InsufficientCurrencyAmount")
        ELSE IF approvers = {} THEN Err(fork, "EmptyApproversList")
        ELSE IF Cardinality(approvers) > MAX_APPROVERS
             THEN Err(fork, "ApproversListIsTooLarge")
        ELSE
        LET f1 == update_wallet(fork, sender, hash)
        IN  Success(create_transfer_multisig(f1, hash))

\* Mutant of TransferMultisig::execute: the approvers list is checked before
\* the sender's balance.
TransferMultisig_execute_list_first(fork, from, hash, to, approvers_list, amount) ==
    IF from = to THEN Err(fork, "SenderSameAsReceiver")
    ELSE IF from \notin DOMAIN fork.wallets THEN Err(fork, "SenderNotFound")
    ELSE IF to \notin DOMAIN fork.wallets THEN Err(fork, "ReceiverNotFound")
    ELSE
    LET sender == fork.wallets[from]
        approvers == ToSet(approvers_list)
    IN  IF approvers = {} THEN Err(fork, "EmptyApproversList")
        ELSE IF Cardinality(approvers) > MAX_APPROVERS
             THEN Err(fork, "ApproversListIsTooLarge")
        ELSE IF sender.balance < amount THEN Err(fork, "InsufficientCurrencyAmount")
        ELSE
        LET f1 == update_wallet(fork, decrease_balance(sender, amount), hash)
        IN  Success(create_transfer_multisig(f1, hash))

\* Mutant of TransferMultisig::execute: the entries of the approvers list are
\* counted, not the different keys in it.
TransferMultisig_execute_by_length(fork, from, hash, to, approvers_list, amount) ==
    IF from = to THEN Err(fork, "SenderSameAsReceiver")
    ELSE IF from \notin DOMAIN fork.wallets THEN Err(fork, "SenderNotFound")
    ELSE IF to \notin DOMAIN fork.wallets THEN Err(fork, "ReceiverNotFound")
    ELSE
    LET sender == fork.wallets[from]
    IN  IF sender.balance < amount THEN Err(fork, "InsufficientCurrencyAmount")
        ELSE IF approvers_list = << >> THEN Err(fork, "EmptyApproversList")
        ELSE IF Len(approvers_list) > MAX_APPROVERS
             THEN Err(fork, "ApproversListIsTooLarge")
        ELSE
        LET f1 == update_wallet(fork, decrease_balance(sender, amount), hash)
        IN  Success(create_transfer_multisig(f1, hash))

\* Mutant of TransferMultisig::execute: the sender is debited and no record of
\* the transfer is created.
TransferMultisig_execute_no_record(fork, from, hash, to, approvers_list, amount) ==
    IF from = to THEN Err(fork, "SenderSameAsReceiver")
    ELSE IF from \notin DOMAIN fork.wallets THEN Err(fork, "SenderNotFound")
    ELSE IF to \notin DOMAIN fork.wallets THEN Err(fork, "ReceiverNotFound")
    ELSE
    LET sender == fork.wallets[from]
        approvers == ToSet(approvers_list)
    IN  IF sender.balance < amount THEN Err(fork, "InsufficientCurrencyAmount")
        ELSE IF approvers = {} THEN Err(fork, "EmptyApproversList")
        ELSE IF Cardinality(approvers) > MAX_APPROVERS
             THEN Err(fork, "ApproversListIsTooLarge")
        ELSE Success(update_wallet(fork, decrease_balance(sender, amount), hash))

TransferMultisig_execute(fork, from, hash, to, approvers_list, amount) ==
    IF from = to THEN Err(fork, "SenderSameAsReceiver")
    ELSE IF from \notin DOMAIN fork.wallets THEN Err(fork, "SenderNotFound")
    ELSE IF to \notin DOMAIN fork.wallets THEN Err(fork, "ReceiverNotFound")
    ELSE
    LET sender == fork.wallets[from]
        approvers == ToSet(approvers_list)
    IN  IF sender.balance < amount THEN Err(fork, "InsufficientCurrencyAmount")
        ELSE IF approvers = {} THEN Err(fork, "EmptyApproversList")
        ELSE IF Cardinality(approvers) > MAX_APPROVERS
             THEN Err(fork, "ApproversListIsTooLarge")
        ELSE
        LET f1 == update_wallet(fork, decrease_balance(sender, amount), hash)
        IN  Success(create_transfer_multisig(f1, hash))

\* Mutant of ApproveTransferMultisig::execute: the kind of the referred
\* transaction is looked at before its result.
ApproveTransferMultisig_execute_kind_first(fork, approver, hash, tx_hash) ==
    IF tx_hash \notin DOMAIN transaction_results
    THEN Err(fork, "TransactionDoesNotExist")
    ELSE IF transactions[tx_hash].kind # "TransferMultisig"
    THEN Err(fork, "ReferredTransactionIsNotTransferMultisig")
    ELSE IF transaction_results[tx_hash] # Ok
    THEN Err(fork, "ReferredTransactionFailed")
    ELSE
    LET original_transfer == transactions[tx_hash]
        wallet == fork.wallets[original_transfer.to]
        transfer_in_question == fork.multisig_transfers[tx_hash]
    IN  IF is_rejected(transfer_in_question)
        THEN Err(fork, "TransferIsRejected")
        ELSE
        LET approved == approve(transfer_in_question, approver,
                                original_transfer.approvers)
        IN  IF ~approved.ok
            THEN Err(fork, "ApproverIsNotOnApproversList")
            ELSE
            LET approved_transfer == approved.value
                f1 == IF is_done(approved_transfer)
                      THEN update_wallet(fork,
                               increase_balance(wallet, original_transfer.amount),
                               hash)
                      ELSE fork
            IN  Success(update_transfer_multisig(f1, tx_hash, approved_transfer))

\* Mutant of ApproveTransferMultisig::execute: the approver is looked up in
\* the approvers list before the transfer is looked at for a rejection.
ApproveTransferMultisig_execute_list_first(fork, approver, hash, tx_hash) ==
    IF tx_hash \notin DOMAIN transaction_results
    THEN Err(fork, "TransactionDoesNotExist")
    ELSE IF transaction_results[tx_hash] # Ok
    THEN Err(fork, "ReferredTransactionFailed")
    ELSE IF tx_hash \notin DOMAIN transactions
    THEN Err(fork, "TransactionDoesNotExist")
    ELSE IF transactions[tx_hash].kind # "TransferMultisig"
    THEN Err(fork, "ReferredTransactionIsNotTransferMultisig")
    ELSE
    LET original_transfer == transactions[tx_hash]
    IN  IF original_transfer.to \notin DOMAIN fork.wallets
        THEN Err(fork, "ReceiverNotFound")
        ELSE IF tx_hash \notin DOMAIN fork.multisig_transfers
        THEN Err(fork, "TransactionDoesNotExist")
        ELSE
        LET wallet == fork.wallets[original_transfer.to]
            transfer_in_question == fork.multisig_transfers[tx_hash]
            approved == approve(transfer_in_question, approver,
                                original_transfer.approvers)
        IN  IF ~approved.ok
            THEN Err(fork, "ApproverIsNotOnApproversList")
            ELSE IF is_rejected(transfer_in_question)
            THEN Err(fork, "TransferIsRejected")
            ELSE
            LET approved_transfer == approved.value
                f1 == IF is_done(approved_transfer)
                      THEN update_wallet(fork,
                               increase_balance(wallet, original_transfer.amount),
                               hash)
                      ELSE fork
            IN  Success(update_transfer_multisig(f1, tx_hash, approved_transfer))

ApproveTransferMultisig_execute(fork, approver, hash, tx_hash) ==
    IF tx_hash \notin DOMAIN transaction_results
    THEN Err(fork, "TransactionDoesNotExist")
    ELSE IF transaction_results[tx_hash] # Ok
    THEN Err(fork, "ReferredTransactionFailed")
    ELSE IF tx_hash \notin DOMAIN transactions
    THEN Err(fork, "TransactionDoesNotExist")
    ELSE IF transactions[tx_hash].kind # "TransferMultisig"
    THEN Err(fork, "ReferredTransactionIsNotTransferMultisig")
    ELSE
    LET original_transfer == transactions[tx_hash]
    IN  IF original_transfer.to \notin DOMAIN fork.wallets
        THEN Err(fork, "ReceiverNotFound")
        ELSE IF tx_hash \notin DOMAIN fork.multisig_transfers
        THEN Err(fork, "TransactionDoesNotExist")
        ELSE
        LET wallet == fork.wallets[original_transfer.to]
            transfer_in_question == fork.multisig_transfers[tx_hash]
        IN  IF is_rejected(transfer_in_question)
            THEN Err(fork, "TransferIsRejected")
            ELSE
            LET approved == approve(transfer_in_question, approver,
                                    original_transfer.approvers)
            IN  IF ~approved.ok
                THEN Err(fork, "ApproverIsNotOnApproversList")
                ELSE
                LET approved_transfer == approved.value
                    f1 == IF is_done(approved_transfer)
                          THEN update_wallet(fork,
                                   increase_balance(wallet, original_transfer.amount),
                                   hash)
                          ELSE fork
                IN  Success(update_transfer_multisig(f1, tx_hash, approved_transfer))

\* Mutant of RejectTransferMultisig::execute: the sender is refunded before the
\* rejecter is looked up in the approvers list.
RejectTransferMultisig_execute_refunds_first(fork, rejecter, hash, tx_hash) ==
    IF tx_hash \notin DOMAIN transaction_results
    THEN Err(fork, "TransactionDoesNotExist")
    ELSE IF transaction_results[tx_hash] # Ok
    THEN Err(fork, "ReferredTransactionFailed")
    ELSE IF transactions[tx_hash].kind # "TransferMultisig"
    THEN Err(fork, "ReferredTransactionIsNotTransferMultisig")
    ELSE
    LET original_transfer == transactions[tx_hash]
        original_author == transactions[tx_hash].author
    IN  IF original_author \notin DOMAIN fork.wallets
        THEN Err(fork, "SenderNotFound")
        ELSE IF tx_hash \notin DOMAIN fork.multisig_transfers
        THEN Err(fork, "TransactionDoesNotExist")
        ELSE
        LET sender == fork.wallets[original_author]
            transfer_in_question == fork.multisig_transfers[tx_hash]
            f1 == update_wallet(fork,
                      increase_balance(sender, original_transfer.amount), hash)
            rejected == reject(transfer_in_question, rejecter,
                               original_transfer.approvers)
        IN  IF ~rejected.ok
            THEN Err(f1, "ApproverIsNotOnApproversList")
            ELSE Success(update_transfer_multisig(f1, tx_hash, rejected.value))

\* Mutant of RejectTransferMultisig::execute: the refund is refused when the
\* sender holds less than the amount of the transfer.
RejectTransferMultisig_execute_from_balance(fork, rejecter, hash, tx_hash) ==
    IF tx_hash \notin DOMAIN transaction_results
    THEN Err(fork, "TransactionDoesNotExist")
    ELSE IF transaction_results[tx_hash] # Ok
    THEN Err(fork, "ReferredTransactionFailed")
    ELSE IF tx_hash \notin DOMAIN transactions
    THEN Err(fork, "TransactionDoesNotExist")
    ELSE IF transactions[tx_hash].kind # "TransferMultisig"
    THEN Err(fork, "ReferredTransactionIsNotTransferMultisig")
    ELSE
    LET original_transfer == transactions[tx_hash]
        original_author == transactions[tx_hash].author
    IN  IF original_author \notin DOMAIN fork.wallets
        THEN Err(fork, "SenderNotFound")
        ELSE IF tx_hash \notin DOMAIN fork.multisig_transfers
        THEN Err(fork, "TransactionDoesNotExist")
        ELSE
        LET sender == fork.wallets[original_author]
            transfer_in_question == fork.multisig_transfers[tx_hash]
            rejected == reject(transfer_in_question, rejecter,
                               original_transfer.approvers)
        IN  IF ~rejected.ok
            THEN Err(fork, "ApproverIsNotOnApproversList")
            ELSE IF sender.balance < original_transfer.amount
            THEN Err(fork, "InsufficientCurrencyAmount")
            ELSE
            LET rejected_transfer == rejected.value
                f1 == update_wallet(fork,
                          increase_balance(sender, original_transfer.amount), hash)
            IN  Success(update_transfer_multisig(f1, tx_hash, rejected_transfer))

RejectTransferMultisig_execute(fork, rejecter, hash, tx_hash) ==
    IF tx_hash \notin DOMAIN transaction_results
    THEN Err(fork, "TransactionDoesNotExist")
    ELSE IF transaction_results[tx_hash] # Ok
    THEN Err(fork, "ReferredTransactionFailed")
    ELSE IF tx_hash \notin DOMAIN transactions
    THEN Err(fork, "TransactionDoesNotExist")
    ELSE IF transactions[tx_hash].kind # "TransferMultisig"
    THEN Err(fork, "ReferredTransactionIsNotTransferMultisig")
    ELSE
    LET original_transfer == transactions[tx_hash]
        original_author == transactions[tx_hash].author
    IN  IF original_author \notin DOMAIN fork.wallets
        THEN Err(fork, "SenderNotFound")
        ELSE IF tx_hash \notin DOMAIN fork.multisig_transfers
        THEN Err(fork, "TransactionDoesNotExist")
        ELSE
        LET sender == fork.wallets[original_author]
            transfer_in_question == fork.multisig_transfers[tx_hash]
            rejected == reject(transfer_in_question, rejecter,
                               original_transfer.approvers)
        IN  IF ~rejected.ok
            THEN Err(fork, "ApproverIsNotOnApproversList")
            ELSE
            LET rejected_transfer == rejected.value
                f1 == update_wallet(fork,
                          increase_balance(sender, original_transfer.amount), hash)
            IN  Success(update_transfer_multisig(f1, tx_hash, rejected_transfer))

\* ------------------------------------------------------------- transactions

\* A signed transaction of WalletTransactions; the fields a kind does not have
\* hold a default.
Tx(kind, author, name, to, amount, approvers, tx_hash) ==
    [kind |-> kind, author |-> author, name |-> name, to |-> to,
     amount |-> amount, approvers |-> approvers, tx_hash |-> tx_hash]

\* Transaction::execute of the transaction's kind, on the fork, with
\* context.author() and context.tx_hash().
Execute(fork, tx, hash) ==
    CASE tx.kind = "CreateWallet" ->
            CreateWallet_execute(fork, tx.author, hash, tx.name)
      [] tx.kind = "Issue" ->
            Issue_execute(fork, tx.author, hash, tx.amount)
      [] tx.kind = "Transfer" ->
            Transfer_execute(fork, tx.author, hash, tx.to, tx.amount)
      [] tx.kind = "TransferMultisig" ->
            TransferMultisig_execute(fork, tx.author, hash, tx.to, tx.approvers, tx.amount)
      [] tx.kind = "ApproveTransferMultisig" ->
            ApproveTransferMultisig_execute(fork, tx.author, hash, tx.tx_hash)
      [] tx.kind = "RejectTransferMultisig" ->
            RejectTransferMultisig_execute(fork, tx.author, hash, tx.tx_hash)

\* The hash of the next delivered transaction.
NextHash == Len(transactions) + 1

\* Hashes a transaction may refer to: those delivered, and one not delivered.
RefHashes == 1 .. NextHash

NumFailed == Cardinality({h \in DOMAIN transaction_results : transaction_results[h] # Ok})

\* The fork is merged when the execution succeeded and discarded otherwise.
Commit(out) == IF out.result = Ok THEN out.fork ELSE Fork

\* One delivered transaction: executed on a fork of the storage, its result
\* recorded under its hash.
Deliver(tx) ==
    \E out \in {Execute(Fork, tx, NextHash)} :
        \E committed \in {Commit(out)} :
            /\ IF out.result = Ok THEN TRUE ELSE NumFailed < MaxFailed
            /\ transactions' = Append(transactions, tx)
            /\ transaction_results' = Append(transaction_results, out.result)
            /\ wallets' = committed.wallets
            /\ wallet_history' = committed.wallet_history
            /\ multisig_transfers' = committed.multisig_transfers
            /\ UNCHANGED replayed

\* The run is bounded: no more than MaxOps transactions are delivered.
CanDeliver == Len(transactions) < MaxOps

CreateWalletTxs ==
    {Tx("CreateWallet", a, n, a, 0, << >>, 0) : a \in Owners, n \in Names}

IssueTxs ==
    {Tx("Issue", a, "", a, m, << >>, 0) : a \in Owners, m \in Amounts}

TransferTxs ==
    {Tx("Transfer", a, "", t, m, << >>, 0) : a \in Owners, t \in Owners, m \in Amounts}

TransferMultisigTxs ==
    {Tx("TransferMultisig", a, "", t, m, l, 0) :
        a \in Owners, t \in Owners, m \in Amounts, l \in ApproverLists}

ApproveTransferMultisigTxs ==
    {Tx("ApproveTransferMultisig", a, "", a, 0, << >>, h) : a \in Approvers, h \in RefHashes}

RejectTransferMultisigTxs ==
    {Tx("RejectTransferMultisig", a, "", a, 0, << >>, h) : a \in Approvers, h \in RefHashes}

CreateWallet ==
    /\ CanDeliver
    /\ \E tx \in CreateWalletTxs : Deliver(tx)

Issue ==
    /\ CanDeliver
    /\ \E tx \in IssueTxs : Deliver(tx)

Transfer ==
    /\ CanDeliver
    /\ \E tx \in TransferTxs : Deliver(tx)

TransferMultisig ==
    /\ CanDeliver
    /\ \E tx \in TransferMultisigTxs : Deliver(tx)

ApproveTransferMultisig ==
    /\ CanDeliver
    /\ \E tx \in ApproveTransferMultisigTxs : Deliver(tx)

RejectTransferMultisig ==
    /\ CanDeliver
    /\ \E tx \in RejectTransferMultisigTxs : Deliver(tx)

Init ==
    /\ wallets = << >>
    /\ wallet_history = [k \in Owners |-> << >>]
    /\ multisig_transfers = << >>
    /\ transactions = << >>
    /\ transaction_results = << >>
    /\ replayed = {}

Next ==
    \/ CreateWallet
    \/ Issue
    \/ Transfer
    \/ TransferMultisig
    \/ ApproveTransferMultisig
    \/ RejectTransferMultisig

Spec == Init /\ [][Next]_vars

\* --------------------------------------------------------------- short runs

\* One delivered transaction of a short run.
DeliverShort(tx) ==
    \E out \in {Execute(Fork, tx, NextHash)} :
        \E committed \in {Commit(out)} :
            /\ IF out.result = Ok THEN TRUE ELSE NumFailed < ShortFailed
            /\ transactions' = Append(transactions, tx)
            /\ transaction_results' = Append(transaction_results, out.result)
            /\ wallets' = committed.wallets
            /\ wallet_history' = committed.wallet_history
            /\ multisig_transfers' = committed.multisig_transfers
            /\ UNCHANGED replayed

\* A short run takes no more than ShortOps transactions.
CanDeliverShort == Len(transactions) < ShortOps

CreateWalletShort ==
    /\ CanDeliverShort
    /\ \E tx \in CreateWalletTxs : DeliverShort(tx)

IssueShort ==
    /\ CanDeliverShort
    /\ \E tx \in IssueTxs : DeliverShort(tx)

TransferShort ==
    /\ CanDeliverShort
    /\ \E tx \in TransferTxs : DeliverShort(tx)

TransferMultisigShort ==
    /\ CanDeliverShort
    /\ \E tx \in TransferMultisigTxs : DeliverShort(tx)

ApproveTransferMultisigShort ==
    /\ CanDeliverShort
    /\ \E tx \in ApproveTransferMultisigTxs : DeliverShort(tx)

RejectTransferMultisigShort ==
    /\ CanDeliverShort
    /\ \E tx \in RejectTransferMultisigTxs : DeliverShort(tx)

NextShort ==
    \/ CreateWalletShort
    \/ IssueShort
    \/ TransferShort
    \/ TransferMultisigShort
    \/ ApproveTransferMultisigShort
    \/ RejectTransferMultisigShort

SpecShort == Init /\ [][NextShort]_vars

\* ------------------------------------------------------- runs with replays

\* One delivered transaction of a run with replays.
DeliverReplay(tx) ==
    \E out \in {Execute(Fork, tx, NextHash)} :
        \E committed \in {Commit(out)} :
            /\ IF out.result = Ok THEN TRUE ELSE NumFailed < MaxFailed
            /\ transactions' = Append(transactions, tx)
            /\ transaction_results' = Append(transaction_results, out.result)
            /\ wallets' = committed.wallets
            /\ wallet_history' = committed.wallet_history
            /\ multisig_transfers' = committed.multisig_transfers
            /\ UNCHANGED replayed

CanDeliverReplay == Len(transactions) < ReplayOps

CreateWalletReplay ==
    /\ CanDeliverReplay
    /\ \E tx \in CreateWalletTxs : DeliverReplay(tx)

IssueReplay ==
    /\ CanDeliverReplay
    /\ \E tx \in IssueTxs : DeliverReplay(tx)

TransferReplay ==
    /\ CanDeliverReplay
    /\ \E tx \in TransferTxs : DeliverReplay(tx)

TransferMultisigReplay ==
    /\ CanDeliverReplay
    /\ \E tx \in TransferMultisigTxs : DeliverReplay(tx)

ApproveTransferMultisigReplay ==
    /\ CanDeliverReplay
    /\ \E tx \in ApproveTransferMultisigTxs : DeliverReplay(tx)

RejectTransferMultisigReplay ==
    /\ CanDeliverReplay
    /\ \E tx \in RejectTransferMultisigTxs : DeliverReplay(tx)

\* Mutant of Refuse: the message delivered before is executed again, under its
\* hash.
Refuse_executes(h) ==
    \E out \in {Execute(Fork, transactions[h], h)} :
        \E committed \in {Commit(out)} :
            /\ replayed' = replayed \cup {h}
            /\ wallets' = committed.wallets
            /\ wallet_history' = committed.wallet_history
            /\ multisig_transfers' = committed.multisig_transfers
            /\ UNCHANGED <<transactions, transaction_results>>

\* A message whose hash is the hash of a delivered transaction is refused as a
\* duplicate: it is not executed and nothing is recorded for it.
Refuse(h) ==
    /\ replayed' = replayed \cup {h}
    /\ UNCHANGED <<wallets, wallet_history, multisig_transfers, transactions,
                   transaction_results>>

\* The message of a delivered transaction arrives again.
Redeliver ==
    /\ Cardinality(replayed) < MaxRefused
    /\ \E h \in DOMAIN transactions \ replayed : Refuse(h)

NextReplay ==
    \/ CreateWalletReplay
    \/ IssueReplay
    \/ TransferReplay
    \/ TransferMultisigReplay
    \/ ApproveTransferMultisigReplay
    \/ RejectTransferMultisigReplay
    \/ Redeliver

SpecReplay == Init /\ [][NextReplay]_vars

\* ------------------------------------------ runs in which approvals arrive

CanDeliverLive == Len(transactions) < LiveOps

CreateWalletLive ==
    /\ CanDeliverLive
    /\ \E tx \in CreateWalletTxs : Deliver(tx)

\* Approvers lists that name a key more than once: one of two entries, and one
\* of MAX_APPROVERS + 1 entries that holds two different keys. The message
\* carries a list, which only TransferMultisig::sign builds from a set.
RepeatedApprovers ==
    {<<"carol", "carol">>, <<"carol", "dave", "carol", "dave", "carol", "dave">>}

TransferMultisigLiveTxs ==
    {Tx("TransferMultisig", a, "", t, m, l, 0) :
        a \in Owners, t \in Owners, m \in Amounts,
        l \in ApproverLists \cup RepeatedApprovers}

TransferMultisigLive ==
    /\ CanDeliverLive
    /\ \E tx \in TransferMultisigLiveTxs : Deliver(tx)

\* The transfers in process that have the key in their approvers list and not
\* in approved_by.
AwaitedFrom(approver) ==
    {h \in DOMAIN multisig_transfers :
        /\ multisig_transfers[h].state = InProcess
        /\ approver \in ToSet(transactions[h].approvers)
        /\ approver \notin ToSet(multisig_transfers[h].approved_by)}

\* The approval of the transfer h by an approver who has not approved it.
ApproveLive(approver, h) ==
    /\ h \in AwaitedFrom(approver)
    /\ Deliver(Tx("ApproveTransferMultisig", approver, "", approver, 0, << >>, h))

ApproveTransferMultisigLive ==
    /\ multisig_transfers # << >>
    /\ \E approver \in Approvers, h \in 1 .. LiveOps : ApproveLive(approver, h)

\* A rejection of a transfer in process by one of its approvers.
RejectTransferMultisigLive ==
    \E rejecter \in Approvers, h \in DOMAIN multisig_transfers :
        /\ multisig_transfers[h].state = InProcess
        /\ rejecter \in ToSet(transactions[h].approvers)
        /\ Deliver(Tx("RejectTransferMultisig", rejecter, "", rejecter, 0, << >>, h))

NextLive ==
    \/ CreateWalletLive
    \/ TransferMultisigLive
    \/ ApproveTransferMultisigLive
    \/ RejectTransferMultisigLive

\* Every approval of an approver who has not approved is delivered in the end;
\* a rejection may or may not arrive.
FairApprovals ==
    \A approver \in Approvers, h \in 1 .. LiveOps :
        WF_vars(ApproveLive(approver, h))

SpecLive == Init /\ [][NextLive]_vars /\ FairApprovals

\* ------------------------------------------------------ runs of the schema

\* One call of a mutator of schema.rs: recorded with its outcome under the
\* hash it was given; a call that panics leaves the storage as it was.
Call(kind, key, amount, out) ==
    /\ transactions' = Append(transactions, Tx(kind, key, "", key, amount, << >>, 0))
    /\ transaction_results' = Append(transaction_results, out.result)
    /\ wallets' = out.fork.wallets
    /\ wallet_history' = out.fork.wallet_history
    /\ UNCHANGED <<multisig_transfers, replayed>>

\* A run of the schema is bounded.
CanCall == Len(transactions) < MaxCalls

\* The pending transfers of the wallet of a key.
PendingOf(key) == ToSet(wallets[key].pending_multisig_transfers)

SchemaCreateWallet ==
    /\ CanCall
    /\ \E key \in Owners \ DOMAIN wallets, name \in Names :
          Call("create_wallet", key, 0,
               Success(create_wallet(Fork, key, name, NextHash)))

IncreaseWalletBalance ==
    /\ CanCall
    /\ \E key \in DOMAIN wallets, amount \in Amounts :
          \E out \in increase_wallet_balance(Fork, wallets[key], amount, NextHash) :
              Call("increase_wallet_balance", key, amount, out)

\* The callers debit a wallet only of what it holds.
DecreaseWalletBalance ==
    /\ CanCall
    /\ \E key \in DOMAIN wallets, amount \in Amounts :
          /\ wallets[key].balance >= amount
          /\ Call("decrease_wallet_balance", key, amount,
                  decrease_wallet_balance(Fork, wallets[key], amount, NextHash))

PutTransferMultisig ==
    /\ CanCall
    /\ \E key \in DOMAIN wallets :
          Call("put_transfer_multisig", key, 0,
               put_transfer_multisig(Fork, wallets[key],
                                     PendingTransferMultisig_new(NextHash)))

UpdateTransferMultisig ==
    /\ CanCall
    /\ \E key \in DOMAIN wallets :
          \E transfer \in PendingOf(key), approver \in Approvers :
              Call("update_transfer_multisig", key, 0,
                   update_transfer_multisig_of_wallet(Fork, wallets[key],
                       PendingTransferMultisig_approve(transfer, approver), NextHash))

CompleteTransferMultisig ==
    /\ CanCall
    /\ \E key \in DOMAIN wallets, amount \in Amounts :
          \E transfer \in PendingOf(key) :
              \E out \in complete_transfer_multisig(Fork, wallets[key], amount,
                                                     transfer, NextHash) :
                  Call("complete_transfer_multisig", key, amount, out)

CancelTransferMultisig ==
    /\ CanCall
    /\ \E key \in DOMAIN wallets :
          \E transfer \in PendingOf(key) :
              Call("cancel_transfer_multisig", key, 0,
                   cancel_transfer_multisig(Fork, wallets[key], transfer, NextHash))

NextSchema ==
    \/ SchemaCreateWallet
    \/ IncreaseWalletBalance
    \/ DecreaseWalletBalance
    \/ PutTransferMultisig
    \/ UpdateTransferMultisig
    \/ CompleteTransferMultisig
    \/ CancelTransferMultisig

SpecSchema == Init /\ [][NextSchema]_vars

\* ------------------------------------------- src/backend/src/wallet.rs

\* Wallet::new of the older service (encoding_struct! Wallet).
Legacy_Wallet_new(pub_key, login, balance, history_len) ==
    [pub_key |-> pub_key, login |-> login, balance |-> balance,
     history_len |-> history_len]

\* Wallet::set_balance of the older service: the balance is overwritten.
Legacy_set_balance(wallet, balance) == [wallet EXCEPT !.balance = balance]

\* Wallet::grow_length_set_history_hash: history_len grows by one.
grow_length_set_history_hash(wallet) == [wallet EXCEPT !.history_len = @ + 1]

\* Wallet::transfer_to: what is returned and the two wallets after the call;
\* two outcomes when the balance of the other wallet plus the amount overflows.
transfer_to(self, other, amount) ==
    IF self.pub_key = other.pub_key
    THEN {[returned |-> "false", self |-> self, other |-> other]}
    ELSE IF self.balance < amount
    THEN {[returned |-> "false", self |-> self, other |-> other]}
    ELSE
    LET self_amount == self.balance - amount
    IN  {IF other_amount.panic
         THEN [returned |-> "Panic", self |-> self, other |-> other]
         ELSE [returned |-> "true",
               self |-> Legacy_set_balance(self, self_amount),
               other |-> Legacy_set_balance(other, other_amount.value)] :
            other_amount \in add_u64(other.balance, amount)}

\* ------------------------------------------------ runs of the older wallet

\* The two Wallet values of a run, as the tests of wallet.rs build them.
Slots == {"a", "b"}

LegacyBalances == {0, 50, INITIAL_BALANCE, U64_MAX}

LegacyAmounts == {50, INITIAL_BALANCE}

LegacyWallets ==
    {Legacy_Wallet_new(key, "a", balance, 12) :
        key \in Owners, balance \in LegacyBalances}

InitLegacy ==
    /\ wallets \in [Slots -> LegacyWallets]
    /\ wallet_history = [k \in Owners |-> << >>]
    /\ multisig_transfers = << >>
    /\ transactions = << >>
    /\ transaction_results = << >>
    /\ replayed = {}

CanCallLegacy == Len(transactions) < MaxLegacyCalls

\* a.transfer_to(&mut b, amount) on two of the values.
TransferTo ==
    /\ CanCallLegacy
    /\ \E self \in Slots, amount \in LegacyAmounts :
          \E other \in Slots \ {self} :
            \E out \in transfer_to(wallets[self], wallets[other], amount) :
                /\ transactions' =
                      Append(transactions,
                             Tx("transfer_to", self, "", other, amount, << >>, 0))
                /\ transaction_results' = Append(transaction_results, out.returned)
                /\ wallets' = [wallets EXCEPT ![self] = out.self, ![other] = out.other]
                /\ UNCHANGED <<wallet_history, multisig_transfers, replayed>>

\* a.grow_length_set_history_hash(&hash) on one of the values.
GrowLength ==
    /\ CanCallLegacy
    /\ \E self \in Slots :
          /\ transactions' =
                Append(transactions,
                       Tx("grow_length_set_history_hash", self, "", self, 0, << >>, 0))
          /\ transaction_results' = Append(transaction_results, Ok)
          /\ wallets' = [wallets EXCEPT ![self] = grow_length_set_history_hash(@)]
          /\ UNCHANGED <<wallet_history, multisig_transfers, replayed>>

NextLegacy ==
    \/ TransferTo
    \/ GrowLength

SpecLegacy == InitLegacy /\ [][NextLegacy]_vars

\* ------------------------------------------------------------------ api.rs

\* Mutant of PublicApi::simple_wallet_info: the newest transaction comes first.
simple_wallet_info_newest_first(key) ==
    IF key \notin DOMAIN wallets
    THEN [found |-> FALSE, transactions |-> << >>]
    ELSE LET history == wallet_history[key]
             committed == SelectSeq(history, LAMBDA hash : hash \in DOMAIN transactions)
         IN  [found |-> TRUE,
              transactions |-> [i \in DOMAIN committed |->
                                   committed[Len(committed) + 1 - i]]]

\* PublicApi::simple_wallet_info: NotFound for a key without a wallet,
\* otherwise the hashes of the wallet's history that the explorer knows as
\* committed, in the order of the history.
simple_wallet_info(key) ==
    IF key \notin DOMAIN wallets
    THEN [found |-> FALSE, transactions |-> << >>]
    ELSE LET history == wallet_history[key]
         IN  [found |-> TRUE,
              transactions |->
                  SelectSeq(history, LAMBDA hash : hash \in DOMAIN transactions)]

\* ------------------------------------------------------------------ claims

\* Every transaction the model delivers in some state.
AllTxs ==
    CreateWalletTxs \cup IssueTxs \cup TransferTxs \cup TransferMultisigTxs
        \cup ApproveTransferMultisigTxs \cup RejectTransferMultisigTxs

\* The sum of f over the set S.
RECURSIVE SumOver(_, _)
SumOver(f, S) ==
    IF S = {} THEN 0
    ELSE LET x == CHOOSE y \in S : TRUE IN f[x] + SumOver(f, S \ {x})

\* The hash, the transaction and the result of the transaction a step delivers.
NewHash == Len(transactions')

NewTx == transactions'[NewHash]

NewResult == transaction_results'[NewHash]

\* The step delivers a transaction of the kind, and it succeeds.
Succeeds(kind) ==
    /\ Len(transactions') = Len(transactions) + 1
    /\ NewTx.kind = kind
    /\ NewResult = Ok

\* The step delivers a transaction of the kind, whatever its result.
Delivers(kind) ==
    /\ Len(transactions') = Len(transactions) + 1
    /\ NewTx.kind = kind

\* What execute returns for the transaction the step delivers, run on the
\* storage the step starts from.
NewOut == Execute(Fork, NewTx, NewHash)

\* A wallet of a key that signs nothing, and the storage with that wallet added:
\* the wallet no transaction of the run is about.
Bystander == Wallet_new("erin", "wallet", INITIAL_BALANCE, 1)

WithBystander == [Fork EXCEPT !.wallets = Put(@, "erin", Bystander)]

\* The last delivered transaction is of the kind and has the result.
LastIs(kind, result) ==
    /\ transactions # << >>
    /\ transactions[Len(transactions)].kind = kind
    /\ transaction_results[Len(transactions)] = result

\* The transactions of the kind that refer to the transfer h and are recorded
\* in the history of the wallet: each is one change of that wallet's balance.
Settlements(kind, key, h) ==
    {i \in DOMAIN wallet_history[key] :
        /\ transactions[wallet_history[key][i]].kind = kind
        /\ transactions[wallet_history[key][i]].tx_hash = h}

\* C1: the sum of all wallet balances plus the amounts of all transfers still
\* in process equals INITIAL_BALANCE times the number of successful
\* CreateWallet plus the amounts of all successful Issue.
Conservation ==
    LET balance == [k \in DOMAIN wallets |-> wallets[k].balance]
        pending == {h \in DOMAIN multisig_transfers :
                        multisig_transfers[h].state = InProcess}
        held == [h \in pending |-> transactions[h].amount]
        minted == [h \in DOMAIN transactions |->
                    IF transaction_results[h] # Ok THEN 0
                    ELSE IF transactions[h].kind = "CreateWallet" THEN INITIAL_BALANCE
                    ELSE IF transactions[h].kind = "Issue" THEN transactions[h].amount
                    ELSE 0]
    IN  SumOver(balance, DOMAIN wallets) + SumOver(held, pending)
            = SumOver(minted, DOMAIN transactions)

\* C2: for every multisignature transfer, the receiver is credited with its
\* amount at most once, whatever approvals and rejections refer to it.
NoDoubleCredit ==
    \A h \in DOMAIN multisig_transfers :
        Cardinality(Settlements("ApproveTransferMultisig", transactions[h].to, h)) <= 1

\* C3: for every multisignature transfer at most one settlement takes place:
\* the receiver is credited or the sender is refunded, once, never both.
ExactlyOnceSettlement ==
    \A h \in DOMAIN multisig_transfers :
        Cardinality(Settlements("ApproveTransferMultisig", transactions[h].to, h))
          + Cardinality(Settlements("RejectTransferMultisig", transactions[h].author, h))
            <= 1

FailureIsAtomic ==
    CanDeliver =>
        \A tx \in AllTxs :
            \A out \in {Execute(Fork, tx, NextHash)} :
                out.result # Ok => out.fork = Fork

\* A transaction failed in a state that holds wallets, histories and a
\* multisignature transfer, the storage still holds them, and a further
\* transaction can be delivered.
FailureIsAtomicWitness ==
    /\ LastIs("RejectTransferMultisig", "ApproverIsNotOnApproversList")
    /\ DOMAIN multisig_transfers # {}
    /\ DOMAIN wallets = Owners
    /\ CanDeliver

\* C6: in every reachable state, everyone in approved_by of a multisignature
\* transfer is on the approvers list of its TransferMultisig.
ApprovedBySubsetOfApprovers ==
    \A h \in DOMAIN multisig_transfers :
        ToSet(multisig_transfers[h].approved_by) \subseteq ToSet(transactions[h].approvers)

\* An approval by a key that is not on the approvers list was refused, and
\* the transfer holds the approval of a key that is.
ApprovedBySubsetWitness ==
    /\ LastIs("ApproveTransferMultisig", "ApproverIsNotOnApproversList")
    /\ \E h \in DOMAIN multisig_transfers :
          /\ multisig_transfers[h].approved_by # << >>
          /\ transactions[Len(transactions)].tx_hash = h

\* C7: in every reachable state, no key appears more than once in approved_by.
NoDuplicateApprovals ==
    \A h \in DOMAIN multisig_transfers :
        Cardinality(ToSet(multisig_transfers[h].approved_by))
            = Len(multisig_transfers[h].approved_by)

\* C8: an approval by a key that is already in approved_by succeeds and
\* changes neither the record of the transfer nor any balance.
ReapprovalIsNoOp ==
    [][\A h \in DOMAIN multisig_transfers :
          (/\ Succeeds("ApproveTransferMultisig")
           /\ NewTx.tx_hash = h
           /\ NewTx.author \in ToSet(multisig_transfers[h].approved_by))
            => /\ multisig_transfers'[h] = multisig_transfers[h]
               /\ \A k \in DOMAIN wallets :
                     wallets'[k].balance = wallets[k].balance]_vars

\* C9: a successful approval that leaves an approver out of approved_by
\* changes no wallet and leaves the transfer in process; a successful approval
\* after which every approver is in approved_by credits the receiver with the
\* amount and makes the transfer Done.
SettlementOnlyOnFullApproval ==
    [][\A h \in DOMAIN multisig_transfers :
          (Succeeds("ApproveTransferMultisig") /\ NewTx.tx_hash = h)
            => LET original == transactions[h]
                   to == original.to
               IN  IF ToSet(multisig_transfers'[h].approved_by) = ToSet(original.approvers)
                   THEN /\ wallets'[to].balance = wallets[to].balance + original.amount
                        /\ multisig_transfers'[h].state = Done
                        /\ \A k \in DOMAIN wallets \ {to} : wallets'[k] = wallets[k]
                   ELSE /\ wallets' = wallets
                        /\ multisig_transfers'[h].state = InProcess]_vars

\* The second of two approvers has approved: the transfer is Done and the
\* approval is in the receiver's history.
SettlementOnlyOnFullApprovalWitness ==
    /\ LastIs("ApproveTransferMultisig", Ok)
    /\ LET h == transactions[Len(transactions)].tx_hash
       IN  /\ Len(transactions[h].approvers) = 2
           /\ multisig_transfers[h].state = Done
           /\ Len(multisig_transfers[h].approved_by) = 2
           /\ Len(transactions) \in ToSet(wallet_history[transactions[h].to])

\* C10: a successful TransferMultisig of an amount debits the author by the
\* amount, creates the record of the transfer under its own hash, in process
\* and with nobody in approved_by, and changes no other wallet and no other
\* record.
TransferMultisigHoldsFunds ==
    [][Succeeds("TransferMultisig")
        => /\ DOMAIN wallets' = DOMAIN wallets
           /\ wallets'[NewTx.author].balance = wallets[NewTx.author].balance - NewTx.amount
           /\ \A k \in DOMAIN wallets \ {NewTx.author} : wallets'[k] = wallets[k]
           /\ NewHash \notin DOMAIN multisig_transfers
           /\ DOMAIN multisig_transfers' = DOMAIN multisig_transfers \cup {NewHash}
           /\ multisig_transfers'[NewHash] = [approved_by |-> << >>, state |-> InProcess]
           /\ \A h \in DOMAIN multisig_transfers :
                 multisig_transfers'[h] = multisig_transfers[h]]_vars

\* The last transaction is a successful TransferMultisig: its record is in
\* process, the sender holds 0 and the receiver still holds INITIAL_BALANCE.
TransferMultisigHoldsFundsWitness ==
    /\ LastIs("TransferMultisig", Ok)
    /\ LET tx == transactions[Len(transactions)]
       IN  /\ multisig_transfers[Len(transactions)].state = InProcess
           /\ wallets[tx.author].balance = INITIAL_BALANCE - tx.amount
           /\ wallets[tx.to].balance = INITIAL_BALANCE

\* C11: a RejectTransferMultisig by a key on the approvers list of a transfer
\* in process succeeds however many approvers have approved: the transfer
\* becomes Rejected, the author of the TransferMultisig gets the whole amount
\* back and the balance of the receiver stays as it is.
UnilateralRejection ==
    [][\A h \in DOMAIN multisig_transfers :
          (/\ Delivers("RejectTransferMultisig")
           /\ NewTx.tx_hash = h
           /\ multisig_transfers[h].state = InProcess
           /\ NewTx.author \in ToSet(transactions[h].approvers))
            => LET original == transactions[h]
               IN  /\ NewResult = Ok
                   /\ multisig_transfers'[h].state = Rejected
                   /\ wallets'[original.author].balance
                        = wallets[original.author].balance + original.amount
                   /\ wallets'[original.to].balance = wallets[original.to].balance]_vars

\* One of two approvers has approved and the other has rejected: the transfer
\* is Rejected, the sender has the amount back and the receiver was not paid.
UnilateralRejectionWitness ==
    /\ LastIs("RejectTransferMultisig", Ok)
    /\ LET h == transactions[Len(transactions)].tx_hash
       IN  /\ Len(transactions[h].approvers) = 2
           /\ multisig_transfers[h].approved_by = <<"carol">>
           /\ multisig_transfers[h].state = Rejected
           /\ wallets[transactions[h].author].balance = INITIAL_BALANCE
           /\ wallets[transactions[h].to].balance = INITIAL_BALANCE

\* C12: an ApproveTransferMultisig that refers to a Rejected transfer fails
\* with TransferIsRejected (code 11), whoever signs it, and execute leaves the
\* record of the transfer and every wallet as they were.
ApproveOfRejectedFails ==
    [][\A h \in DOMAIN multisig_transfers :
          (/\ Delivers("ApproveTransferMultisig")
           /\ NewTx.tx_hash = h
           /\ multisig_transfers[h].state = Rejected)
            => /\ NewResult = "TransferIsRejected"
               /\ ErrorCode[NewResult] = 11
               /\ NewOut.fork = Fork
               /\ UNCHANGED <<wallets, wallet_history, multisig_transfers>>]_vars

\* carol has rejected a transfer and dave's approval of it was refused: the
\* transfer is still Rejected, the sender keeps the refund, the receiver got
\* nothing.
ApproveOfRejectedFailsWitness ==
    /\ LastIs("ApproveTransferMultisig", "TransferIsRejected")
    /\ transactions[Len(transactions)].author = "dave"
    /\ LET h == transactions[Len(transactions)].tx_hash
       IN  /\ multisig_transfers[h] = [approved_by |-> << >>, state |-> Rejected]
           /\ wallets[transactions[h].author].balance = INITIAL_BALANCE
           /\ wallets[transactions[h].to].balance = INITIAL_BALANCE

\* C13: an ApproveTransferMultisig or RejectTransferMultisig signed by a key
\* that is not on the approvers list of the transfer in process it refers to
\* fails with ApproverIsNotOnApproversList (code 10); execute leaves the
\* record in process with the same approved_by, returns nothing to the sender
\* and credits nothing to the receiver.
NotOnApproversListFails ==
    [][\A h \in DOMAIN multisig_transfers :
          (/\ Delivers("ApproveTransferMultisig") \/ Delivers("RejectTransferMultisig")
           /\ NewTx.tx_hash = h
           /\ multisig_transfers[h].state = InProcess
           /\ NewTx.author \notin ToSet(transactions[h].approvers))
            => /\ NewResult = "ApproverIsNotOnApproversList"
               /\ ErrorCode[NewResult] = 10
               /\ NewOut.fork = Fork
               /\ multisig_transfers'[h] = multisig_transfers[h]
               /\ UNCHANGED <<wallets, wallet_history>>]_vars

\* carol alone is the approver of a transfer, carol has not approved yet and
\* dave's approval was refused: the transfer is in process, the amount is
\* neither with the sender nor with the receiver.
NotOnApproversListFailsWitness ==
    /\ LastIs("ApproveTransferMultisig", "ApproverIsNotOnApproversList")
    /\ transactions[Len(transactions)].author = "dave"
    /\ LET h == transactions[Len(transactions)].tx_hash
       IN  /\ transactions[h].approvers = <<"carol">>
           /\ multisig_transfers[h] = [approved_by |-> << >>, state |-> InProcess]
           /\ wallets[transactions[h].author].balance = INITIAL_BALANCE - transactions[h].amount
           /\ wallets[transactions[h].to].balance = INITIAL_BALANCE

\* C14: an ApproveTransferMultisig or RejectTransferMultisig fails with
\* TransactionDoesNotExist (code 7) when no result is recorded under the hash
\* it refers to; otherwise with ReferredTransactionFailed (code 8) when the
\* recorded result is a failure; otherwise with
\* ReferredTransactionIsNotTransferMultisig (code 9) when the transaction
\* under the hash is not a TransferMultisig; in the three cases execute
\* changes no wallet and no record of a transfer.
ReferentialChecksInOrder ==
    [][(Delivers("ApproveTransferMultisig") \/ Delivers("RejectTransferMultisig"))
        => LET h == NewTx.tx_hash
               refused == /\ NewOut.fork = Fork
                          /\ UNCHANGED <<wallets, wallet_history, multisig_transfers>>
           IN  IF h \notin DOMAIN transaction_results
               THEN /\ NewResult = "TransactionDoesNotExist"
                    /\ ErrorCode[NewResult] = 7
                    /\ refused
               ELSE IF transaction_results[h] # Ok
               THEN /\ NewResult = "ReferredTransactionFailed"
                    /\ ErrorCode[NewResult] = 8
                    /\ refused
               ELSE IF transactions[h].kind # "TransferMultisig"
               THEN /\ NewResult = "ReferredTransactionIsNotTransferMultisig"
                    /\ ErrorCode[NewResult] = 9
                    /\ refused
               ELSE TRUE]_vars

\* A transaction has failed and an approval that refers to it was refused with
\* ReferredTransactionFailed, in a storage that holds a wallet.
ReferentialChecksInOrderWitness ==
    /\ LastIs("ApproveTransferMultisig", "ReferredTransactionFailed")
    /\ transaction_results[transactions[Len(transactions)].tx_hash] # Ok
    /\ transactions[transactions[Len(transactions)].tx_hash].kind # "TransferMultisig"
    /\ DOMAIN wallets # {}

\* C15: a successful Transfer of an amount takes exactly the amount from the
\* author's balance, adds exactly the amount to the receiver's balance, adds
\* one to history_len of both wallets, and changes no other wallet and no
\* record of a multisignature transfer.
TransferMovesAmount ==
    [][Succeeds("Transfer")
        => LET from == NewTx.author
               to == NewTx.to
               amount == NewTx.amount
               beside == Execute(WithBystander, NewTx, NewHash)
           IN  /\ from # to
               /\ DOMAIN wallets' = DOMAIN wallets
               /\ wallets'[from].balance = wallets[from].balance - amount
               /\ wallets'[to].balance = wallets[to].balance + amount
               /\ wallets'[from].history_len = wallets[from].history_len + 1
               /\ wallets'[to].history_len = wallets[to].history_len + 1
               /\ \A k \in DOMAIN wallets \ {from, to} : wallets'[k] = wallets[k]
               /\ beside.result = Ok
               /\ beside.fork.wallets["erin"] = Bystander
               /\ UNCHANGED multisig_transfers]_vars

\* Two new wallets and one transfer of the whole balance between them: the
\* sender holds 0, the receiver twice INITIAL_BALANCE, both have history_len 2.
TransferMovesAmountWitness ==
    /\ LastIs("Transfer", Ok)
    /\ Len(transactions) = 3
    /\ LET tx == transactions[Len(transactions)]
       IN  /\ wallets[tx.author].balance = INITIAL_BALANCE - tx.amount
           /\ wallets[tx.to].balance = INITIAL_BALANCE + tx.amount
           /\ wallets[tx.author].history_len = 2
           /\ wallets[tx.to].history_len = 2

\* C16: a Transfer or TransferMultisig between two different existing wallets
\* whose amount is greater than the author's balance fails with
\* InsufficientCurrencyAmount (code 3) and execute leaves the balances of
\* sender and receiver as they were; one whose amount is the balance or less
\* does not fail with InsufficientCurrencyAmount.
InsufficientFundsFails ==
    [][(/\ Delivers("Transfer") \/ Delivers("TransferMultisig")
        /\ NewTx.author # NewTx.to
        /\ {NewTx.author, NewTx.to} \subseteq DOMAIN wallets)
        => IF NewTx.amount > wallets[NewTx.author].balance
           THEN /\ NewResult = "InsufficientCurrencyAmount"
                /\ ErrorCode[NewResult] = 3
                /\ NewOut.fork = Fork
                /\ UNCHANGED <<wallets, wallet_history, multisig_transfers>>
           ELSE NewResult # "InsufficientCurrencyAmount"]_vars

\* A transfer of the whole balance went through, and a multisignature
\* transfer from the emptied wallet was refused for lack of funds.
InsufficientFundsFailsWitness ==
    /\ LastIs("TransferMultisig", "InsufficientCurrencyAmount")
    /\ Len(transactions) = 4
    /\ transactions[3].kind = "Transfer"
    /\ transaction_results[3] = Ok
    /\ transactions[3].author = transactions[4].author
    /\ wallets[transactions[4].author].balance = 0
    /\ wallets[transactions[4].to].balance = 2 * INITIAL_BALANCE

\* C17: a Transfer or TransferMultisig fails with SenderSameAsReceiver (code 4)
\* when the receiver is the author; with SenderNotFound (code 1) when the
\* author, other than the receiver, has no wallet; with ReceiverNotFound
\* (code 2) when the author has a wallet and the receiver, other than the
\* author, has none; in each case execute changes no balance and creates no
\* wallet and no record of a transfer.
MissingPartyFails ==
    [][(Delivers("Transfer") \/ Delivers("TransferMultisig"))
        => LET from == NewTx.author
               to == NewTx.to
               refused == /\ NewOut.fork = Fork
                          /\ UNCHANGED <<wallets, wallet_history, multisig_transfers>>
           IN  IF to = from
               THEN /\ NewResult = "SenderSameAsReceiver"
                    /\ ErrorCode[NewResult] = 4
                    /\ refused
               ELSE IF from \notin DOMAIN wallets
               THEN /\ NewResult = "SenderNotFound"
                    /\ ErrorCode[NewResult] = 1
                    /\ refused
               ELSE IF to \notin DOMAIN wallets
               THEN /\ NewResult = "ReceiverNotFound"
                    /\ ErrorCode[NewResult] = 2
                    /\ refused
               ELSE TRUE]_vars

\* The only wallet is the author's and a multisignature transfer to a key
\* without a wallet was refused: the author still holds INITIAL_BALANCE and
\* there is no record of a transfer.
MissingPartyFailsWitness ==
    /\ LastIs("TransferMultisig", "ReceiverNotFound")
    /\ LET tx == transactions[Len(transactions)]
       IN  /\ DOMAIN wallets = {tx.author}
           /\ wallets[tx.author].balance = INITIAL_BALANCE
           /\ tx.approvers # << >>
    /\ DOMAIN multisig_transfers = {}

\* The approvers lists of 1 to MAX_APPROVERS different keys.
AllowedApproverLists == {SubSeq(TooManyApprovers, 1, n) : n \in 1 .. MAX_APPROVERS}

\* C18: a TransferMultisig between two different existing wallets, of an
\* amount the sender holds, fails with EmptyApproversList (code 5) when its
\* approvers list is empty and with ApproversListIsTooLarge (code 6) when the
\* list holds more than MAX_APPROVERS keys; in both cases execute debits
\* nobody and creates no record. With 1 to MAX_APPROVERS different approvers
\* it succeeds.
ApproversListSize ==
    [][(/\ Delivers("TransferMultisig")
        /\ NewTx.author # NewTx.to
        /\ {NewTx.author, NewTx.to} \subseteq DOMAIN wallets
        /\ NewTx.amount <= wallets[NewTx.author].balance)
        => LET refused == /\ NewOut.fork = Fork
                          /\ UNCHANGED <<wallets, wallet_history, multisig_transfers>>
           IN  /\ IF NewTx.approvers = << >>
                  THEN /\ NewResult = "EmptyApproversList"
                       /\ ErrorCode[NewResult] = 5
                       /\ refused
                  ELSE IF Cardinality(ToSet(NewTx.approvers)) > MAX_APPROVERS
                  THEN /\ NewResult = "ApproversListIsTooLarge"
                       /\ ErrorCode[NewResult] = 6
                       /\ refused
                  ELSE NewResult = Ok
               /\ \A l \in AllowedApproverLists :
                     Execute(Fork, [NewTx EXCEPT !.approvers = l], NewHash).result = Ok]_vars

\* Between two new wallets a multisignature transfer with MAX_APPROVERS + 1
\* approvers was refused: nobody was debited and there is no record.
ApproversListSizeWitness ==
    /\ LastIs("TransferMultisig", "ApproversListIsTooLarge")
    /\ LET tx == transactions[Len(transactions)]
       IN  /\ Len(tx.approvers) = MAX_APPROVERS + 1
           /\ wallets[tx.author].balance = INITIAL_BALANCE
           /\ wallets[tx.to].balance = INITIAL_BALANCE
    /\ DOMAIN multisig_transfers = {}

\* C19: a CreateWallet by an author without a wallet creates one wallet, under
\* the author's key, with the given name, balance INITIAL_BALANCE (100) and
\* history_len 1, and changes nothing else; a CreateWallet by an author who has
\* a wallet fails with WalletAlreadyExists (code 0), under whatever name, and
\* execute leaves the wallet (name, balance, history) as it was.
CreateWalletOnce ==
    [][Delivers("CreateWallet")
        => LET author == NewTx.author
           IN  IF author \notin DOMAIN wallets
               THEN /\ NewResult = Ok
                    /\ DOMAIN wallets' = DOMAIN wallets \cup {author}
                    /\ wallets'[author] =
                          [pub_key |-> author, name |-> NewTx.name,
                           balance |-> INITIAL_BALANCE, history_len |-> 1,
                           pending_multisig_transfers |-> << >>]
                    /\ INITIAL_BALANCE = 100
                    /\ wallet_history'[author] = <<NewHash>>
                    /\ \A k \in DOMAIN wallets :
                          /\ wallets'[k] = wallets[k]
                          /\ wallet_history'[k] = wallet_history[k]
                    /\ UNCHANGED multisig_transfers
               ELSE /\ NewResult = "WalletAlreadyExists"
                    /\ ErrorCode[NewResult] = 0
                    /\ NewOut.fork = Fork
                    /\ Execute(Fork, [NewTx EXCEPT !.name = "another"], NewHash)
                          = Err(Fork, "WalletAlreadyExists")
                    /\ UNCHANGED <<wallets, wallet_history, multisig_transfers>>]_vars

\* The owner of a wallet that has received an issue asked for a wallet again
\* and was refused: the wallet still holds what it held, with its history.
CreateWalletOnceWitness ==
    /\ LastIs("CreateWallet", "WalletAlreadyExists")
    /\ LET author == transactions[Len(transactions)].author
       IN  /\ wallets[author].balance > INITIAL_BALANCE
           /\ wallets[author].history_len = 2
           /\ Len(wallet_history[author]) = 2

\* C20: an Issue of an amount by an author who has a wallet adds exactly the
\* amount to that wallet's balance and one to its history_len and changes no
\* other wallet; an Issue by an author without a wallet fails with
\* ReceiverNotFound (code 2) and execute creates no wallet.
IssueCreditsAuthor ==
    [][Delivers("Issue")
        => LET author == NewTx.author
               beside == Execute(WithBystander, NewTx, NewHash)
           IN  IF author \in DOMAIN wallets
               THEN /\ NewResult = Ok
                    /\ DOMAIN wallets' = DOMAIN wallets
                    /\ wallets'[author].balance = wallets[author].balance + NewTx.amount
                    /\ wallets'[author].history_len = wallets[author].history_len + 1
                    /\ \A k \in DOMAIN wallets \ {author} : wallets'[k] = wallets[k]
                    /\ beside.result = Ok
                    /\ beside.fork.wallets["erin"] = Bystander
                    /\ UNCHANGED multisig_transfers
               ELSE /\ NewResult = "ReceiverNotFound"
                    /\ ErrorCode[NewResult] = 2
                    /\ NewOut.fork = Fork
                    /\ UNCHANGED <<wallets, wallet_history, multisig_transfers>>]_vars

\* Two wallets exist and the last transaction issued an amount to one of them:
\* it holds INITIAL_BALANCE plus the amount with history_len 2, the other is
\* as it was created.
IssueCreditsAuthorWitness ==
    /\ LastIs("Issue", Ok)
    /\ DOMAIN wallets = Owners
    /\ LET tx == transactions[Len(transactions)]
       IN  /\ wallets[tx.author].balance = INITIAL_BALANCE + tx.amount
           /\ wallets[tx.author].history_len = 2
           /\ \A k \in Owners \ {tx.author} :
                 /\ wallets[k].balance = INITIAL_BALANCE
                 /\ wallets[k].history_len = 1

\* C21: in every reachable state the history_len of every wallet is the number
\* of hashes in its history: each successful operation on a wallet, the
\* updates, completions and cancellations of pending multisignature transfers
\* through the mutators of the schema included, adds exactly one to both.
HistoryLenIsHistoryLength ==
    \A key \in DOMAIN wallets :
        wallets[key].history_len = Len(wallet_history[key])

\* C22: a successful ApproveTransferMultisig that does not take the transfer
\* from InProcess to Done changes the record of the transfer only: no wallet
\* and no history changes; the approval that takes it to Done, and no other,
\* appends its hash to the history of the receiver.
OnlyCompletingApprovalTouchesWallets ==
    [][\A h \in DOMAIN multisig_transfers :
          (Succeeds("ApproveTransferMultisig") /\ NewTx.tx_hash = h)
            => LET to == transactions[h].to
               IN  IF /\ multisig_transfers[h].state = InProcess
                      /\ multisig_transfers'[h].state = Done
                   THEN /\ wallet_history'[to] = Append(wallet_history[to], NewHash)
                        /\ \A k \in Owners \ {to} : wallet_history'[k] = wallet_history[k]
                   ELSE UNCHANGED <<wallets, wallet_history>>]_vars

\* What the transaction at the place i of the history of the wallet did to the
\* funds of the wallet: the initial balance, an issue, a transfer in or out, the
\* amount set aside by a multisignature transfer, or the amount of the
\* multisignature transfer an approval or a rejection refers to.
LedgerEntry(key, i) ==
    LET tx == transactions[wallet_history[key][i]]
    IN  CASE tx.kind = "CreateWallet" -> INITIAL_BALANCE
          [] tx.kind = "Issue" -> tx.amount
          [] tx.kind = "Transfer" -> IF tx.author = key THEN 0 - tx.amount ELSE tx.amount
          [] tx.kind = "TransferMultisig" -> 0 - tx.amount
          [] OTHER -> transactions[tx.tx_hash].amount

\* The funds of the wallet by its history, the amounts set aside taken off.
Ledger(key) ==
    SumOver([i \in DOMAIN wallet_history[key] |-> LedgerEntry(key, i)],
            DOMAIN wallet_history[key])

\* The multisignature transfers of the author that are in process.
Escrowed(author) ==
    {h \in DOMAIN multisig_transfers :
        /\ transactions[h].author = author
        /\ multisig_transfers[h].state = InProcess}

\* C23: while a multisignature transfer of an author is in process, a Transfer
\* or TransferMultisig of that author to another existing wallet fails with
\* InsufficientCurrencyAmount whenever its amount is greater than what the
\* history of the wallet leaves after the amounts set aside, whatever the
\* approvers list is; this holds of the delivered transaction and of the same
\* transaction with any greater amount.
EscrowedFundsCannotBeSpent ==
    [][(/\ Delivers("Transfer") \/ Delivers("TransferMultisig")
        /\ NewTx.author # NewTx.to
        /\ {NewTx.author, NewTx.to} \subseteq DOMAIN wallets
        /\ Escrowed(NewTx.author) # {})
        => LET free == Ledger(NewTx.author)
           IN  /\ NewTx.amount > free => NewResult = "InsufficientCurrencyAmount"
               /\ \A amount \in {free + 1, free + INITIAL_BALANCE} :
                    \A approvers \in AllowedApproverLists \cup ApproverLists :
                      LET tx == [NewTx EXCEPT !.amount = amount,
                                              !.approvers = approvers]
                          out == Execute(Fork, tx, NewHash)
                      IN  /\ out.result = "InsufficientCurrencyAmount"
                          /\ out.fork = Fork]_vars

\* A multisignature transfer of the whole balance is in process, and a
\* Transfer of its author was refused for lack of funds.
EscrowedFundsCannotBeSpentWitness ==
    /\ LastIs("Transfer", "InsufficientCurrencyAmount")
    /\ Escrowed(transactions[Len(transactions)].author) # {}
    /\ wallets[transactions[Len(transactions)].author].balance = 0
    /\ transactions[Len(transactions)].to \in DOMAIN wallets
    /\ transactions[Len(transactions)].to # transactions[Len(transactions)].author

\* The balances the sender of a multisignature transfer may hold when the
\* transfer is approved or rejected.
SenderBalances == {0, 1, INITIAL_BALANCE, 2 * INITIAL_BALANCE + 1}

\* The storage with the balance of the wallet replaced.
WithBalance(key, balance) == [Fork EXCEPT !.wallets[key].balance = balance]

\* C24: for a multisignature transfer in process, the approval that takes it
\* to Done adds the amount of the TransferMultisig to the balance of the
\* receiver, and a successful rejection adds that amount to the balance of
\* the sender; an approval or a rejection by a key of the approvers list
\* succeeds, and settles with the same amount, whatever the sender holds at
\* that time, nothing included.
SettlesWithFrozenAmount ==
    [][\A h \in DOMAIN multisig_transfers :
          (/\ Delivers("ApproveTransferMultisig") \/ Delivers("RejectTransferMultisig")
           /\ NewTx.tx_hash = h
           /\ multisig_transfers[h].state = InProcess
           /\ NewTx.author \in ToSet(transactions[h].approvers)
           /\ {transactions[h].author, transactions[h].to} \subseteq DOMAIN wallets)
            => LET from == transactions[h].author
                   to == transactions[h].to
                   amount == transactions[h].amount
                   paid == IF NewTx.kind = "RejectTransferMultisig" THEN from
                           ELSE IF multisig_transfers'[h].state = Done THEN to
                           ELSE "nobody"
               IN  /\ NewResult = Ok
                   /\ \A key \in DOMAIN wallets :
                        wallets'[key].balance =
                            wallets[key].balance + (IF key = paid THEN amount ELSE 0)
                   /\ \A balance \in SenderBalances :
                        LET out == Execute(WithBalance(from, balance), NewTx, NewHash)
                        IN  /\ out.result = Ok
                            /\ out.fork.multisig_transfers = multisig_transfers'
                            /\ \A key \in DOMAIN wallets :
                                 out.fork.wallets[key].balance =
                                    (IF key = from THEN balance ELSE wallets[key].balance)
                                    + (IF key = paid THEN amount ELSE 0)]_vars

\* A multisignature transfer of the whole balance of its sender was rejected
\* while the sender held nothing, and the sender holds the amount again.
SettlesWithFrozenAmountWitness ==
    /\ LastIs("RejectTransferMultisig", Ok)
    /\ LET h == transactions[Len(transactions)].tx_hash
           from == transactions[h].author
       IN  /\ multisig_transfers[h].state = Rejected
           /\ multisig_transfers[h].approved_by = << >>
           /\ Len(transactions) = h + 1
           /\ wallets[from].balance = transactions[h].amount
           /\ wallets[from].history_len = 3

\* C25: a wallet that exists before a step exists after it, under the same
\* key, with the same pub_key and the same name, and with a history_len that is
\* not smaller; a CreateWallet by its key under another name leaves it as it
\* is.
WalletsArePermanent ==
    [][\A key \in DOMAIN wallets :
          /\ key \in DOMAIN wallets'
          /\ wallets[key].pub_key = key
          /\ wallets'[key].pub_key = key
          /\ wallets'[key].name = wallets[key].name
          /\ wallets'[key].history_len >= wallets[key].history_len
          /\ LET tx == Tx("CreateWallet", key, "another", key, 0, << >>, 0)
                 out == Execute(Fork, tx, NextHash)
             IN  Commit(out).wallets[key] = wallets[key]]_vars

\* A wallet created by the first transaction of its key has lived through two
\* more transactions, the last one an Issue.
WalletsArePermanentWitness ==
    /\ LastIs("Issue", Ok)
    /\ LET key == transactions[Len(transactions)].author
       IN  /\ transactions[wallet_history[key][1]].kind = "CreateWallet"
           /\ transactions[wallet_history[key][1]].name = wallets[key].name
           /\ wallets[key].pub_key = key
           /\ wallets[key].history_len >= 3

\* C26: in every reachable state the balance of every wallet is at least
\* zero: no debit takes more than the wallet holds.
BalancesNeverNegative ==
    \A key \in DOMAIN wallets : wallets[key].balance >= 0

\* A Transfer of the whole balance of its sender went through and left the
\* sender with nothing.
BalancesNeverNegativeWitness ==
    /\ LastIs("Transfer", Ok)
    /\ wallets[transactions[Len(transactions)].author].balance = 0
    /\ transactions[Len(transactions)].amount > 0

\* C27: every call ends with Ok or with one of the errors of the Error enum,
\* and a call that credits a wallet and returns Ok leaves it with its balance
\* plus the amount: no call panics and no balance wraps around, also when the
\* sum is greater than U64_MAX.
NoFatalErrorNoWrap ==
    [][Len(transactions') = Len(transactions) + 1
        => /\ NewResult \in {Ok} \cup DOMAIN ErrorCode
           /\ (/\ NewTx.kind \in {"increase_wallet_balance", "complete_transfer_multisig"}
               /\ NewResult = Ok)
                => wallets'[NewTx.to].balance = wallets[NewTx.to].balance + NewTx.amount]_vars

\* The authors of the successful approvals of the transfer h among the first n
\* delivered transactions, in the order of delivery.
RECURSIVE ApprovedInOrder(_, _)
ApprovedInOrder(h, n) ==
    IF n = 0 THEN << >>
    ELSE IF /\ transactions[n].kind = "ApproveTransferMultisig"
            /\ transactions[n].tx_hash = h
            /\ transaction_results[n] = Ok
         THEN Append(ApprovedInOrder(h, n - 1), transactions[n].author)
         ELSE ApprovedInOrder(h, n - 1)

\* Each approver of the transfer h has approved it once, nobody else has, and
\* nobody has rejected it.
OneApprovalEach(h) ==
    LET approved == ApprovedInOrder(h, Len(transactions))
    IN  /\ ToSet(approved) = ToSet(transactions[h].approvers)
        /\ Len(approved) = Cardinality(ToSet(approved))
        /\ Len(approved) > 1
        /\ \A n \in DOMAIN transactions :
              ~(/\ transactions[n].kind = "RejectTransferMultisig"
                /\ transactions[n].tx_hash = h
                /\ transaction_results[n] = Ok)

\* C28: transactions are applied one after the other, each to the storage the
\* one before has left: when each of the two or more approvers of a
\* multisignature transfer has approved it once, the approval delivered last
\* finds the approvals of the others in approved_by, in the order of their
\* delivery, adds its own, takes the transfer to Done and credits the
\* receiver; it is the only approval of that transfer in the history of the
\* receiver, and the receiver has been credited by one amount.
SequentialApprovals ==
    [][\A h \in DOMAIN multisig_transfers :
          (/\ Succeeds("ApproveTransferMultisig")
           /\ NewTx.tx_hash = h
           /\ OneApprovalEach(h)')
            => LET to == transactions[h].to
               IN  /\ multisig_transfers[h].state = InProcess
                   /\ multisig_transfers[h].approved_by
                        = ApprovedInOrder(h, Len(transactions))
                   /\ multisig_transfers'[h].approved_by
                        = Append(multisig_transfers[h].approved_by, NewTx.author)
                   /\ multisig_transfers'[h].state = Done
                   /\ Settlements("ApproveTransferMultisig", to, h) = {}
                   /\ wallet_history'[to] = Append(wallet_history[to], NewHash)
                   /\ wallets'[to].balance
                        = wallets[to].balance + transactions[h].amount]_vars

\* Both approvers of a multisignature transfer have approved it, one after the
\* other; the transfer is Done and the second approval alone is in the history
\* of the receiver.
SequentialApprovalsWitness ==
    /\ LastIs("ApproveTransferMultisig", Ok)
    /\ LET last == Len(transactions)
           h == transactions[last].tx_hash
           to == transactions[h].to
       IN  /\ OneApprovalEach(h)
           /\ Len(multisig_transfers[h].approved_by) = 2
           /\ multisig_transfers[h].state = Done
           /\ {wallet_history[to][i] :
                  i \in Settlements("ApproveTransferMultisig", to, h)} = {last}
           /\ wallets[to].balance = INITIAL_BALANCE + transactions[h].amount

HistoryOf(key) == simple_wallet_info(key).transactions

\* C31: simple_wallet_info returns, for a wallet, the hashes of the successful
\* transactions that created it or changed its balance, in the order of their
\* delivery: a delivered transaction is appended to what was returned before
\* when it succeeds and creates the wallet or changes its balance (for
\* a Transfer the wallets of sender and receiver both), and otherwise what is
\* returned stays the same; a failed transaction is appended to nothing.
HistoryIsSuccessfulTouches ==
    [][Len(transactions') = Len(transactions) + 1
        => \A key \in Owners :
             LET touched == /\ key \in DOMAIN wallets'
                            /\ \/ key \notin DOMAIN wallets
                               \/ wallets'[key].balance # wallets[key].balance
             IN  /\ simple_wallet_info(key)'.found = (key \in DOMAIN wallets')
                 /\ HistoryOf(key)' =
                        IF touched /\ NewResult = Ok
                        THEN Append(HistoryOf(key), NewHash)
                        ELSE HistoryOf(key)
                 /\ NewResult # Ok => ~touched
                 /\ (Succeeds("Transfer") /\ key \in {NewTx.author, NewTx.to})
                        => touched]_vars

\* After two CreateWallet and a Transfer, each of the two wallets has its
\* CreateWallet and then the Transfer, as test_simple_wallet_info expects; a
\* failed transaction came last and is in neither.
HistoryIsSuccessfulTouchesWitness ==
    /\ Len(transactions) = 4
    /\ transactions[3].kind = "Transfer"
    /\ transaction_results[4] # Ok
    /\ LET from == transactions[3].author
           to == transactions[3].to
       IN  /\ from # to
           /\ HistoryOf(from) = <<IF from = transactions[1].author THEN 1 ELSE 2, 3>>
           /\ HistoryOf(to) = <<IF to = transactions[1].author THEN 1 ELSE 2, 3>>

\* The results recorded for the delivered transactions that failed.
FailedResults == {transaction_results[h] : h \in DOMAIN transaction_results} \ {Ok}

\* C32, as stated: the Error enum has 14 kinds, each with a code of its own,
\* and every failed transaction reports one of them.
FourteenErrorKinds ==
    /\ Cardinality(DOMAIN ErrorCode) = 14
    /\ Cardinality({ErrorCode[e] : e \in DOMAIN ErrorCode}) = 14
    /\ FailedResults \subseteq DOMAIN ErrorCode

\* C32, amended: the Error enum has 12 kinds, their codes are the 12 numbers
\* 0 to 11, one each, and every transaction whose execute returned an error
\* is recorded with one of them.
TwelveErrorKinds ==
    /\ Cardinality(DOMAIN ErrorCode) = 12
    /\ {ErrorCode[e] : e \in DOMAIN ErrorCode} = 0 .. 11
    /\ FailedResults \subseteq DOMAIN ErrorCode

\* A transaction has failed with the kind of the highest code.
TwelveErrorKindsWitness ==
    /\ FailedResults # {}
    /\ \E e \in FailedResults : ErrorCode[e] = 11

\* C33: transfer_to returns false and leaves both balances as they are when
\* the two wallets have the same pub_key or the balance of the source is less
\* than the amount; otherwise it returns true, the source has the amount less
\* and the target the amount more; it leaves history_len alone, and
\* grow_length_set_history_hash adds one to the history_len of its wallet and
\* changes nothing else.
TransferToMovesAmount ==
    [][Len(transactions') = Len(transactions) + 1
        => LET self == NewTx.author
               other == NewTx.to
               amount == NewTx.amount
           IN  IF NewTx.kind = "transfer_to"
               THEN /\ \A slot \in Slots :
                          wallets'[slot].history_len = wallets[slot].history_len
                    /\ IF \/ wallets[self].pub_key = wallets[other].pub_key
                           \/ wallets[self].balance < amount
                       THEN /\ NewResult = "false"
                            /\ UNCHANGED wallets
                       ELSE /\ NewResult = "true"
                            /\ wallets'[self].balance = wallets[self].balance - amount
                            /\ wallets'[other].balance = wallets[other].balance + amount
               ELSE /\ wallets'[self] =
                          [wallets[self] EXCEPT !.history_len = @ + 1]
                    /\ \A slot \in Slots \ {self} : wallets'[slot] = wallets[slot]]_vars

\* C34: in every reachable state, a multisignature transfer that is Done has
\* the keys of its approvers list, all of them and no other, in approved_by,
\* and one that is InProcess has an approver who is not in approved_by.
DoneIffAllApproved ==
    \A h \in DOMAIN multisig_transfers :
        LET approvers == ToSet(transactions[h].approvers)
            approved_by == ToSet(multisig_transfers[h].approved_by)
        IN  /\ multisig_transfers[h].state = Done => approved_by = approvers
            /\ multisig_transfers[h].state = InProcess => approvers \ approved_by # {}

\* A transfer with two approvers is Done, the second of its list having
\* approved first.
DoneIffAllApprovedWitness ==
    \E h \in DOMAIN multisig_transfers :
        /\ multisig_transfers[h].state = Done
        /\ Len(transactions[h].approvers) = 2
        /\ multisig_transfers[h].approved_by =
              <<transactions[h].approvers[2], transactions[h].approvers[1]>>
        /\ transactions[h].approvers[1] # transactions[h].approvers[2]

\* The orders in which each key of the set approves once.
Orders(keys) ==
    {order \in [1 .. Cardinality(keys) -> keys] :
        \A i, j \in DOMAIN order : order[i] = order[j] => i = j}

\* The storage after the keys of the order have approved the transfer h one
\* after the other, the first under the given hash, and whether each of the
\* approvals succeeded.
RECURSIVE ApprovedInOrderOf(_, _, _, _)
ApprovedInOrderOf(fork, order, h, hash) ==
    IF order = << >> THEN [ok |-> TRUE, fork |-> fork]
    ELSE LET tx == Tx("ApproveTransferMultisig", Head(order), "", Head(order),
                      0, << >>, h)
             out == Execute(fork, tx, hash)
         IN  IF out.result # Ok THEN [ok |-> FALSE, fork |-> fork]
             ELSE ApprovedInOrderOf(out.fork, Tail(order), h, hash + 1)

\* Whatever the order in which the approvers of the transfer h approve it,
\* every approval succeeds, the transfer is Done with all of them in
\* approved_by, the receiver has the amount once more, every other balance is
\* as before, and wallets and histories are the same for all orders.
AnyOrderSettles(h) ==
    LET approvers == ToSet(transactions[h].approvers)
        to == transactions[h].to
        settled == {ApprovedInOrderOf(Fork, order, h, NextHash) :
                        order \in Orders(approvers)}
    IN  /\ \A after \in settled :
              /\ after.ok
              /\ after.fork.multisig_transfers[h].state = Done
              /\ after.fork.multisig_transfers[h].approved_by \in Orders(approvers)
              /\ \A key \in DOMAIN wallets :
                    after.fork.wallets[key].balance =
                        wallets[key].balance
                        + (IF key = to THEN transactions[h].amount ELSE 0)
        /\ Cardinality({after.fork.multisig_transfers[h].approved_by :
                            after \in settled}) = Cardinality(Orders(approvers))
        /\ Cardinality({<<after.fork.wallets, after.fork.wallet_history>> :
                            after \in settled}) = 1

\* The record of a transfer after the keys of the order have approved it one
\* after the other by MultisignatureTransfer::approve, or Rejected as soon as
\* approve refuses one of them or the transfer is Done before the last.
RECURSIVE ApproveAll(_, _, _)
ApproveAll(transfer, order, approvers) ==
    IF order = << >> THEN transfer
    ELSE LET approved == approve(transfer, Head(order), approvers)
         IN  IF ~approved.ok \/ is_done(transfer)
             THEN [transfer EXCEPT !.state = Rejected]
             ELSE ApproveAll(approved.value, Tail(order), approvers)

\* For the approvers lists of up to MaxPermuted keys, every order of approval
\* takes a new transfer to Done, with the last approval and not before.
AnyOrderCompletes ==
    \A approvers \in {list \in AllowedApproverLists : Len(list) <= MaxPermuted} :
        \A order \in Orders(ToSet(approvers)) :
            LET done == ApproveAll(MultisignatureTransfer_new, order, approvers)
            IN  /\ done = [approved_by |-> order, state |-> Done]
                /\ is_complete(done, approvers)

\* C35: a multisignature transfer nobody has approved yet ends in the same
\* state whatever the order in which its approvers approve it, once each and
\* with no rejection: Done, the receiver credited once with the amount, and
\* every other balance the same. It is checked in the state the first
\* approval of the transfer is delivered in; the orders of the longer
\* approvers lists are tried on the record alone, in the earliest such state.
ApprovalOrderIndependent ==
    [][\A h \in DOMAIN multisig_transfers :
          (/\ Succeeds("ApproveTransferMultisig")
           /\ NewTx.tx_hash = h
           /\ multisig_transfers[h] = MultisignatureTransfer_new)
            => /\ AnyOrderSettles(h)
               /\ Len(transactions) = 3 => AnyOrderCompletes]_vars

\* A transfer with two approvers has been created and nobody has approved it:
\* there are two orders, and both settle it.
ApprovalOrderIndependentWitness ==
    /\ LastIs("TransferMultisig", Ok)
    /\ LET h == Len(transactions)
       IN  /\ Cardinality(Orders(ToSet(transactions[h].approvers))) = 2
           /\ multisig_transfers[h] = MultisignatureTransfer_new
           /\ AnyOrderSettles(h)

\* C36: when the approval of every approver who has not approved is delivered
\* in the end, every multisignature transfer leaves InProcess: it becomes
\* Done, or Rejected when one of its approvers rejects it first; so no
\* transfer stays in process for ever and from every state one of the two
\* is reached. A transfer in process becomes Rejected exactly when a rejection
\* of it succeeds, so without one it ends Done.
EveryTransferIsResolved ==
    /\ \A h \in 1 .. LiveOps :
          (h \in DOMAIN multisig_transfers)
              ~> (/\ h \in DOMAIN multisig_transfers
                  /\ multisig_transfers[h].state \in {Done, Rejected})
    /\ [][\A h \in DOMAIN multisig_transfers :
             multisig_transfers[h].state = InProcess
                 => (multisig_transfers'[h].state = Rejected
                        <=> /\ Succeeds("RejectTransferMultisig")
                            /\ NewTx.tx_hash = h)]_vars

\* A transfer with two approvers has been approved by both, nobody rejected
\* it, it is Done and no approval of it is awaited.
EveryTransferIsResolvedWitness ==
    \E h \in DOMAIN multisig_transfers :
        /\ multisig_transfers[h].state = Done
        /\ Len(multisig_transfers[h].approved_by) = 2
        /\ Len(transactions) = h + 2
        /\ \A approver \in Approvers : h \notin AwaitedFrom(approver)
        /\ \A n \in DOMAIN transactions :
              transactions[n].kind # "RejectTransferMultisig"

\* The order in which the spec says the failures of Transfer and
\* TransferMultisig are reported.
Precedence ==
    <<"SenderSameAsReceiver", "SenderNotFound", "ReceiverNotFound",
      "InsufficientCurrencyAmount", "EmptyApproversList", "ApproversListIsTooLarge">>

\* The preconditions a Transfer or a TransferMultisig violates on the storage,
\* each looked at on its own.
Violated(tx) ==
    {kind \in ToSet(Precedence) :
        CASE kind = "SenderSameAsReceiver" -> tx.author = tx.to
          [] kind = "SenderNotFound" -> tx.author \notin DOMAIN wallets
          [] kind = "ReceiverNotFound" -> tx.to \notin DOMAIN wallets
          [] kind = "InsufficientCurrencyAmount" ->
                /\ tx.author \in DOMAIN wallets
                /\ wallets[tx.author].balance < tx.amount
          [] kind = "EmptyApproversList" ->
                /\ tx.kind = "TransferMultisig"
                /\ tx.approvers = << >>
          [] kind = "ApproversListIsTooLarge" ->
                /\ tx.kind = "TransferMultisig"
                /\ Cardinality(ToSet(tx.approvers)) > MAX_APPROVERS}

\* The violated precondition that comes first in the order, Ok when none is.
FirstViolated(tx) ==
    LET violated == Violated(tx)
    IN  IF violated = {} THEN Ok
        ELSE Precedence[CHOOSE i \in DOMAIN Precedence :
                            /\ Precedence[i] \in violated
                            /\ \A j \in 1 .. i - 1 : Precedence[j] \notin violated]

\* The transaction with an amount of one more than its author's balance.
AboveBalance(tx) ==
    IF tx.author \in DOMAIN wallets
    THEN [tx EXCEPT !.amount = wallets[tx.author].balance + 1]
    ELSE tx

\* C37: a Transfer or a TransferMultisig that violates several preconditions
\* at once fails with the one that comes first in the order
\* SenderSameAsReceiver, SenderNotFound, ReceiverNotFound,
\* InsufficientCurrencyAmount, EmptyApproversList, ApproversListIsTooLarge;
\* looked at for the delivered transaction and for the same transaction with
\* an amount above the sender's balance.
FailuresInPrecedence ==
    [][(Delivers("Transfer") \/ Delivers("TransferMultisig"))
          => LET tx == NewTx
                 above == AboveBalance(tx)
             IN  /\ NewResult = FirstViolated(tx)
                 /\ Execute(Fork, above, NewHash).result = FirstViolated(above)]_vars

\* A TransferMultisig with an empty approvers list and an amount above the
\* sender's balance has failed with InsufficientCurrencyAmount.
FailuresInPrecedenceWitness ==
    /\ transactions # << >>
    /\ LET h == Len(transactions)
       IN  /\ transactions[h].kind = "TransferMultisig"
           /\ transactions[h].approvers = << >>
           /\ transactions[h].author \in DOMAIN wallets
           /\ wallets[transactions[h].author].balance < transactions[h].amount
           /\ transaction_results[h] = "InsufficientCurrencyAmount"

\* C38: an approval of a Rejected transfer fails with TransferIsRejected,
\* whether or not its author is on the approvers list; a rejection looks at no
\* state: of a transfer that has a record, in whatever state, it succeeds
\* when its author is on the approvers list and fails with
\* ApproverIsNotOnApproversList otherwise.
RejectedBeforeEligibility ==
    [][\A h \in DOMAIN multisig_transfers :
          /\ (/\ Delivers("ApproveTransferMultisig")
              /\ NewTx.tx_hash = h
              /\ multisig_transfers[h].state = Rejected)
                => NewResult = "TransferIsRejected"
          /\ (/\ Delivers("RejectTransferMultisig")
              /\ NewTx.tx_hash = h)
                => NewResult = IF NewTx.author \in ToSet(transactions[h].approvers)
                               THEN Ok
                               ELSE "ApproverIsNotOnApproversList"]_vars

\* A Rejected transfer has been approved by a key that is not on its approvers
\* list, and the approval has failed with TransferIsRejected.
RejectedBeforeEligibilityWitness ==
    /\ LastIs("ApproveTransferMultisig", "TransferIsRejected")
    /\ LET tx == transactions[Len(transactions)]
       IN  /\ tx.tx_hash \in DOMAIN multisig_transfers
           /\ multisig_transfers[tx.tx_hash].state = Rejected
           /\ tx.author \notin ToSet(transactions[tx.tx_hash].approvers)

\* C39: a key named more than once in the approvers list of a TransferMultisig
\* counts once. A transfer that passes the checks of the wallets and of the
\* balance fails with EmptyApproversList when its list names no key, with
\* ApproversListIsTooLarge when it names more than MAX_APPROVERS different
\* keys, and succeeds otherwise, however long the list; and an approval leaves
\* the transfer Done exactly when every key of the list has approved.
DuplicateApproversCountOnce ==
    [][/\ (/\ Delivers("TransferMultisig")
           /\ NewResult \notin {"SenderSameAsReceiver", "SenderNotFound",
                                "ReceiverNotFound", "InsufficientCurrencyAmount"})
             => LET distinct == Cardinality(ToSet(NewTx.approvers))
                IN  NewResult = IF distinct = 0 THEN "EmptyApproversList"
                                ELSE IF distinct > MAX_APPROVERS
                                     THEN "ApproversListIsTooLarge"
                                     ELSE Ok
       /\ \A h \in DOMAIN multisig_transfers :
             (/\ Succeeds("ApproveTransferMultisig")
              /\ NewTx.tx_hash = h
              /\ multisig_transfers[h].state = InProcess)
                => (multisig_transfers'[h].state = Done
                       <=> \A approver \in ToSet(transactions[h].approvers) :
                              \E i \in DOMAIN multisig_transfers'[h].approved_by :
                                  multisig_transfers'[h].approved_by[i] = approver)]_vars

\* A transfer whose approvers list has more than MAX_APPROVERS entries that
\* name two keys was accepted and is Done after one approval of each key.
DuplicateApproversCountOnceWitness ==
    \E h \in DOMAIN multisig_transfers :
        /\ Len(transactions[h].approvers) > MAX_APPROVERS
        /\ Cardinality(ToSet(transactions[h].approvers)) = 2
        /\ multisig_transfers[h].state = Done
        /\ Len(multisig_transfers[h].approved_by) = 2

\* The hashes of the TransferMultisig transactions that succeeded.
SuccessfulTransfers ==
    {h \in DOMAIN transactions :
        /\ transactions[h].kind = "TransferMultisig"
        /\ transaction_results[h] = Ok}

\* C40: in every state, every TransferMultisig that succeeded has its record
\* and the wallets of its author and of its receiver; so an approval or a
\* rejection that refers to one never fails with ReceiverNotFound,
\* SenderNotFound or TransactionDoesNotExist.
TransferKeepsRecordAndWallets ==
    /\ [](\A h \in SuccessfulTransfers :
             /\ h \in DOMAIN multisig_transfers
             /\ transactions[h].author \in DOMAIN wallets
             /\ transactions[h].to \in DOMAIN wallets)
    /\ [][(/\ Delivers("ApproveTransferMultisig") \/ Delivers("RejectTransferMultisig")
           /\ NewTx.tx_hash \in SuccessfulTransfers)
             => NewResult \notin {"ReceiverNotFound", "SenderNotFound",
                                  "TransactionDoesNotExist"}]_vars

\* A TransferMultisig succeeded, a transaction was delivered after it, and an
\* approval that refers to it was delivered and went past the lookups of the
\* wallet and of the record.
TransferKeepsRecordAndWalletsWitness ==
    \E h \in SuccessfulTransfers :
        /\ h + 1 < Len(transactions)
        /\ transactions[Len(transactions)].kind = "ApproveTransferMultisig"
        /\ transactions[Len(transactions)].tx_hash = h
        /\ transaction_results[Len(transactions)]
              \in {Ok, "ApproverIsNotOnApproversList", "TransferIsRejected"}

=============================================================================
